---- MODULE Spec2Model ----
(***************************************************************************)
(* svitlo-e-stats: the chart section's time-window cache, its in-flight    *)
(* request table, the loadRange sequence counter, the series assembly and  *)
(* the range/zoom controller (src/src/components/ChartSection.tsx).        *)
(*                                                                         *)
(* One action is one event-loop task.  Promise continuations (microtasks)  *)
(* run to completion inside the task that settles the promise, so the      *)
(* arrival of a response, the cache write, the in-flight delete of the     *)
(* issuing call's finally block and the continuations of every loadRange   *)
(* awaiting that promise are one action.  React state setters are applied  *)
(* at once.  Times are epoch milliseconds relative to an origin that keeps *)
(* them inside TLC's integers.  Optional values (undefined/null) are sets  *)
(* with at most one element.                                               *)
(***************************************************************************)
EXTENDS Integers, Sequences, FiniteSets, TLC

(***************************** bounds ***************************************)
\* number of loadRange calls in one run
MaxRequestId == 3
\* number of network requests issued in one run
MaxNetCalls == 4
\* Date.now() takes the values T0 .. T0 + MaxClock
MaxClock == 1
\* bins the modelled server reports per window, evenly spaced, both ends included
BinsPerWindow == 2

(************************* program constants ********************************)
MIN_RANGE_SEC == 60
MAX_CACHE_SIZE == 20
\* denominator of MIN_RANGE_RATIO = 1 / 7
MIN_RANGE_RATIO_DEN == 7
DEBOUNCE_MS == 250

RANGE_OPTIONS ==
  << [id |-> "1h", seconds |-> 60 * 60, binSec |-> 60],
     [id |-> "1d", seconds |-> 24 * 60 * 60, binSec |-> 5 * 60],
     [id |-> "7d", seconds |-> 7 * 24 * 60 * 60, binSec |-> 5 * 60],
     [id |-> "30d", seconds |-> 30 * 24 * 60 * 60, binSec |-> 15 * 60] >>

DEFAULT_OPTION == RANGE_OPTIONS[3]

(************************* environment **************************************)
\* Date.now() at mount, relative to the model's origin
T0 == 1000
\* the server's declared available range: one week of data up to mount time
AvailMax == T0
AvailMin == T0 - DEFAULT_OPTION.seconds * 1000
\* response variants: two different bodies for the same window
Versions == {1, 2}

(************************* small helpers ************************************)
Min(a, b) == IF a <= b THEN a ELSE b
Max(a, b) == IF a >= b THEN a ELSE b
Abs(a) == IF a >= 0 THEN a ELSE 0 - a
\* Math.round(n / d) for d > 0: floor(n/d + 1/2), halves go up
RoundDiv(n, d) == (n \div d) + (IF 2 * (n % d) >= d THEN 1 ELSE 0)
\* the element of a one-element set
The(S) == CHOOSE x \in S : TRUE
\* a ?? b on optional values
OrElse(a, b) == IF a # {} THEN a ELSE b

(************************* JS Map in insertion order ************************)
MapHas(m, k) == \E i \in 1..Len(m) : m[i].key = k
MapGet(m, k) == {m[i].val : i \in {j \in 1..Len(m) : m[j].key = k}}
MapSet(m, k, v) ==
  IF MapHas(m, k)
  THEN [i \in 1..Len(m) |-> IF m[i].key = k THEN [key |-> k, val |-> v] ELSE m[i]]
  ELSE Append(m, [key |-> k, val |-> v])
MapDeleteRec(m, k, i) ==
  [j \in 1..(Len(m) - 1) |-> IF j < i THEN m[j] ELSE m[j + 1]]
MapDelete(m, k) ==
  IF MapHas(m, k)
  THEN MapDeleteRec(m, k, CHOOSE i \in 1..Len(m) : m[i].key = k)
  ELSE m
MapKeys(m) == {m[i].key : i \in 1..Len(m)}

(************************* windows and the server ***************************)
\* makeCacheKey: Math.round is applied to integer-valued endTime and rangeSec
MakeCacheKey(endTimeEpochMs, rangeSec, binSec) ==
  << RoundDiv(endTimeEpochMs, 1), RoundDiv(rangeSec, 1), binSec >>

\* A response body is [key, ver]: the window it answers and which of the
\* server's bodies it is.  Body 1 carries the meta object, body 2 does not;
\* body 0 is a window without bins; body 3 has bins and no count of any type.
MakeData(k, v) == [key |-> k, ver |-> v]
HasMeta(d) == d.ver = 1

\* bins of a window: BinsPerWindow timestamps from the window's start to its end
Bins(d) ==
  IF d.ver = 0 THEN << >>
  ELSE LET end == d.key[1]
           span == d.key[2] * 1000
       IN [i \in 1..BinsPerWindow |->
             (end - span) + ((i - 1) * span) \div (BinsPerWindow - 1)]

\* body 1 counts 5, 7, 9, ...; body 2 counts 3, 9, 15, ...
Count(ver, i) == IF ver = 1 THEN 2 * i + 3 ELSE 6 * i - 3

\* countsByType: body 1 reports "cl"; body 2 reports "cl" and a "cs" array that
\* is one shorter than bins (the last count is missing)
CountsByType(d) ==
  IF d.ver = 0 THEN << >>
  ELSE IF d.ver = 3 THEN << >>
  ELSE IF d.ver = 1
  THEN << [type |-> "cl", values |-> [i \in 1..BinsPerWindow |-> Count(1, i)]] >>
  ELSE << [type |-> "cl", values |-> [i \in 1..BinsPerWindow |-> Count(2, i)]],
          [type |-> "cs", values |-> [i \in 1..(BinsPerWindow - 1) |-> 1]] >>

\* meta.types, a sequence; empty when the body has no meta
MetaTypes(d) ==
  IF HasMeta(d) THEN << "cl" >> ELSE << >>

\* meta.availableMin / meta.availableMax as the string the server sends:
\* [iso |-> TRUE, ms |-> t] is the ISO string of t, [iso |-> FALSE] no such field
MetaAvailableMin(d) == [iso |-> HasMeta(d), ms |-> AvailMin]
MetaAvailableMax(d) == [iso |-> HasMeta(d), ms |-> AvailMax]

\* parseMetaTime: undefined for a missing value, else the parsed milliseconds
ParseMetaTime(value) == IF ~value.iso THEN {} ELSE {value.ms}

\* What arrives for a request for window k: status is the HTTP status, or
\* "network" when fetch itself rejects; bins, total and countsByType say what
\* the JSON body holds under these names: "array" an array, "arrays" an object
\* whose values are arrays, "numbers" an object whose values are numbers,
\* "number" a number, "missing" nothing.
Response(k, v, status, bins, total, countsByType) ==
  [ status |-> status, key |-> k, ver |-> v, bins |-> bins, total |-> total,
    countsByType |-> countsByType ]

\* what the server answers to a request for window k: one of its bodies, or
\* status 500
Responses(k) ==
  {Response(k, v, "200", "array", "array", "arrays") : v \in Versions}
  \cup {Response(k, 0, "500", "missing", "missing", "missing")}

\* fetch rejects: no response at all
TransportErrors(k) ==
  {Response(k, 0, "network", "missing", "missing", "missing")}

\* bodies of status 200 of other shapes: without bins, without total, and
\* with each other kind of countsByType
MalformedBodies(k) ==
  { Response(k, 1, "200", "missing", "array", "arrays"),
    Response(k, 1, "200", "array", "missing", "arrays"),
    Response(k, 1, "200", "array", "array", "missing"),
    Response(k, 1, "200", "array", "array", "numbers"),
    Response(k, 1, "200", "array", "array", "number") }

\* The promise `request` of fetchStats (lines 255-274) up to the value it is
\* fulfilled with or the error it is rejected with.  fetch rejects on a
\* transport error; a status outside 2xx and a bins that is not an array
\* throw; data.total.map throws a TypeError when total is not an array,
\* Object.entries throws one for undefined or null, values.map throws one for
\* a value that is not an array; Object.entries of a number is empty, so
\* countsByType becomes {}.
ParseResponse(r) ==
  IF r.status = "network"
  THEN [ok |-> FALSE, data |-> MakeData(r.key, 0), message |-> "Failed to fetch"]
  ELSE IF r.status # "200"
  THEN [ok |-> FALSE, data |-> MakeData(r.key, 0),
        message |-> "Request failed: 500"]
  ELSE IF r.bins # "array"
  THEN [ok |-> FALSE, data |-> MakeData(r.key, 0),
        message |-> "Unexpected response shape."]
  ELSE IF r.total # "array" \/ r.countsByType \in {"missing", "numbers"}
  THEN [ok |-> FALSE, data |-> MakeData(r.key, 0), message |-> "TypeError"]
  ELSE IF r.countsByType = "number"
  THEN [ok |-> TRUE, data |-> MakeData(r.key, 3), message |-> ""]
  ELSE [ok |-> TRUE, data |-> MakeData(r.key, r.ver), message |-> ""]

(************************* state *******************************************)
VARIABLES
  selectedOption,    \* useState: the selected RangeOption [id, seconds, binSec]
  zoomLimitSec,      \* useState
  endTime,           \* useState
  chartData,         \* useState: {} (null) or {data}
  loading,           \* useState
  error,             \* useState: {} (null) or {message}
  availableRange,    \* useState: [min, max], each {} or {ms}
  cachedData,        \* useState: the copy of the cache the series are built from
  cacheRef,          \* useRef: Map key -> [data, loadedAt], in insertion order
  inFlightRef,       \* useRef: Map key -> promise (the request's number)
  requestIdRef,      \* useRef
  zoomDebounceRef,   \* useRef: {} (null) or {id of the timer scheduled last}
  timers,            \* the browser's live timers: [id, commit], commit being
                     \* the values the callback closes over
  mounted,           \* the component is mounted
  isInitialLoadRef,  \* useRef
  effectPending,     \* the effect of line 396 has changed dependencies and has not run
  waiters,           \* calls suspended on a request promise: loadRange and prefetch
  netLog,            \* every network request issued so far: [key, status,
                     \* response], response being {} until it has arrived
  now,               \* Date.now()
  loadCount,         \* loadRange calls made since the initial state
  fetchLog,          \* the fetchStats calls made by the last task
  resumed,           \* the loadRange continuations run by the last task
  zoomLog,           \* the handleZoomRange call made by the last task, if any
  prefetchLog,       \* the prefetchAdjacent calls made by the last task
  clickLog,          \* the option passed to handleRangeClick by the last task
  chartLog,          \* the dataZoom event handled by the last task, if any
  accessChart,       \* AccessChart: its refs isPointerDownRef and
                     \* pendingZoomRangeRef ({} for null), the event handled by
                     \* the last task and the onZoomRange calls that task made
  summaryProvider    \* SummaryProvider: its useState values, requestIdRef,
                     \* the loadSummary calls suspended on an await, and the
                     \* calls that ended in the last task

vars ==
  << selectedOption, zoomLimitSec, endTime, chartData, loading, error,
     availableRange, cachedData, cacheRef, inFlightRef, requestIdRef,
     zoomDebounceRef, isInitialLoadRef, effectPending, waiters, netLog, now,
     loadCount, fetchLog, resumed, zoomLog, timers, mounted, prefetchLog,
     clickLog, chartLog, accessChart, summaryProvider >>

\* AccessChart after construction (AccessChart.tsx lines 103-106)
AccessChartInit ==
  [ isPointerDownRef |-> FALSE, pendingZoomRangeRef |-> {},
    event |-> "", called |-> << >> ]

\* SummaryProvider after construction (SummaryProvider.tsx lines 18-23), its
\* effect not yet run
SummaryProviderInit ==
  [ summary |-> {}, error |-> {}, loading |-> TRUE, refreshing |-> FALSE,
    refreshSignal |-> 0, requestIdRef |-> 0, mounted |-> TRUE,
    effectPending |-> TRUE, calls |-> {}, ended |-> {} ]

\* the whole state as one record, so that the calls of one task compose
State ==
  [ selectedOption |-> selectedOption, zoomLimitSec |-> zoomLimitSec,
    endTime |-> endTime, chartData |-> chartData, loading |-> loading,
    error |-> error, availableRange |-> availableRange,
    cachedData |-> cachedData, cacheRef |-> cacheRef,
    inFlightRef |-> inFlightRef, requestIdRef |-> requestIdRef,
    zoomDebounceRef |-> zoomDebounceRef, isInitialLoadRef |-> isInitialLoadRef,
    effectPending |-> effectPending, waiters |-> waiters, netLog |-> netLog,
    now |-> now, loadCount |-> loadCount, fetchLog |-> << >>, resumed |-> << >>,
    zoomLog |-> {}, timers |-> timers, mounted |-> mounted,
    prefetchLog |-> << >>, clickLog |-> {}, chartLog |-> {},
    accessChart |-> [accessChart EXCEPT !.event = "", !.called = << >>],
    summaryProvider |-> [summaryProvider EXCEPT !.ended = {}],
    over |-> FALSE ]

\* a task ends: its result becomes the next state (over: a bound was exceeded)
Commit(s) ==
  \E t \in {s} :
    /\ ~t.over
    /\ selectedOption' = t.selectedOption
    /\ zoomLimitSec' = t.zoomLimitSec
    /\ endTime' = t.endTime
    /\ chartData' = t.chartData
    /\ loading' = t.loading
    /\ error' = t.error
    /\ availableRange' = t.availableRange
    /\ cachedData' = t.cachedData
    /\ cacheRef' = t.cacheRef
    /\ inFlightRef' = t.inFlightRef
    /\ requestIdRef' = t.requestIdRef
    /\ zoomDebounceRef' = t.zoomDebounceRef
    /\ isInitialLoadRef' = t.isInitialLoadRef
    /\ effectPending' = t.effectPending
    /\ waiters' = t.waiters
    /\ netLog' = t.netLog
    /\ now' = t.now
    /\ loadCount' = t.loadCount
    /\ fetchLog' = t.fetchLog
    /\ resumed' = t.resumed
    /\ zoomLog' = t.zoomLog
    /\ timers' = t.timers
    /\ mounted' = t.mounted
    /\ prefetchLog' = t.prefetchLog
    /\ clickLog' = t.clickLog
    /\ chartLog' = t.chartLog
    /\ accessChart' = t.accessChart
    /\ summaryProvider' = t.summaryProvider

(************************* derived values of a render ***********************)
\* const rangeSec = selectedOption.seconds etc. (lines 99-101)
rangeSec == selectedOption.seconds
binSec == selectedOption.binSec
rangeStart == endTime - rangeSec * 1000

(************************* fetch / cache layer ******************************)
\* the forEach of evictOldestCache over the first n entries: oldestTime starts
\* at Infinity ({}), and an entry replaces the candidate only when its loadedAt
\* is strictly smaller
RECURSIVE OldestScan(_, _)
OldestScan(cache, n) ==
  IF n = 0 THEN [oldestKey |-> {}, oldestTime |-> {}]
  ELSE LET acc == OldestScan(cache, n - 1)
           item == cache[n].val
       IN IF acc.oldestTime = {} \/ item.loadedAt < The(acc.oldestTime)
          THEN [oldestKey |-> {cache[n].key}, oldestTime |-> {item.loadedAt}]
          ELSE acc

\* the scan with <= in place of <: the last of the oldest entries wins
RECURSIVE OldestScanLast(_, _)
OldestScanLast(cache, n) ==
  IF n = 0 THEN [oldestKey |-> {}, oldestTime |-> {}]
  ELSE LET acc == OldestScanLast(cache, n - 1)
           item == cache[n].val
       IN IF acc.oldestTime = {} \/ item.loadedAt <= The(acc.oldestTime)
          THEN [oldestKey |-> {cache[n].key}, oldestTime |-> {item.loadedAt}]
          ELSE acc

\* evictOldestCache that removes the entry inserted last among the oldest
EvictLastOfOldest(cache) ==
  IF Len(cache) <= MAX_CACHE_SIZE THEN cache
  ELSE LET oldestKey == OldestScanLast(cache, Len(cache)).oldestKey
       IN IF oldestKey # {} THEN MapDelete(cache, The(oldestKey)) ELSE cache

\* evictOldestCache that removes nothing
EvictNothing(cache) == cache

\* evictOldestCache that removes the entry inserted first
EvictFirstInserted(cache) ==
  IF Len(cache) <= MAX_CACHE_SIZE THEN cache ELSE MapDelete(cache, cache[1].key)

\* evictOldestCache that removes the oldest entry whatever the size
EvictOldestAlways(cache) ==
  IF Len(cache) <= 1 THEN cache
  ELSE LET oldestKey == OldestScan(cache, Len(cache)).oldestKey
       IN IF oldestKey # {} THEN MapDelete(cache, The(oldestKey)) ELSE cache

\* evictOldestCache (lines 208-227), on the cache Map
EvictOldestCache(cache) ==
  IF Len(cache) <= MAX_CACHE_SIZE THEN cache
  ELSE LET oldestKey == OldestScan(cache, Len(cache)).oldestKey
       IN IF oldestKey # {} THEN MapDelete(cache, The(oldestKey)) ELSE cache

\* fetchStats without the cache lookup of lines 240-243
FetchStatsCallNoCache(s, targetEndTime, targetRangeSec, targetBinSec) ==
  LET cacheKey == MakeCacheKey(targetEndTime, targetRangeSec, targetBinSec)
      inFlight == MapGet(s.inFlightRef, cacheKey)
      request == Len(s.netLog) + 1
  IN IF inFlight # {}
     THEN [s |-> s, data |-> {}, pid |-> inFlight, issued |-> FALSE]
     ELSE [s |-> [s EXCEPT
                    !.netLog = Append(@, [key |-> cacheKey, status |-> "pending",
                                          response |-> {}]),
                    !.inFlightRef = MapSet(@, cacheKey, request),
                    !.over = @ \/ request > MaxNetCalls],
           data |-> {}, pid |-> {request}, issued |-> TRUE]

\* fetchStats whose cache hit refreshes the entry's load timestamp
FetchStatsCallTouch(s, targetEndTime, targetRangeSec, targetBinSec) ==
  LET cacheKey == MakeCacheKey(targetEndTime, targetRangeSec, targetBinSec)
      cached == MapGet(s.cacheRef, cacheKey)
      inFlight == MapGet(s.inFlightRef, cacheKey)
      request == Len(s.netLog) + 1
  IN IF cached # {}
     THEN [s |-> [s EXCEPT !.cacheRef =
                     MapSet(@, cacheKey, [The(cached) EXCEPT !.loadedAt = s.now + 1])],
           data |-> {The(cached).data}, pid |-> {}, issued |-> FALSE]
     ELSE IF inFlight # {}
     THEN [s |-> s, data |-> {}, pid |-> inFlight, issued |-> FALSE]
     ELSE [s |-> [s EXCEPT
                    !.netLog = Append(@, [key |-> cacheKey, status |-> "pending",
                                          response |-> {}]),
                    !.inFlightRef = MapSet(@, cacheKey, request),
                    !.over = @ \/ request > MaxNetCalls],
           data |-> {}, pid |-> {request}, issued |-> TRUE]

\* fetchStats without the in-flight lookup of lines 245-248
FetchStatsCallNoCoalesce(s, targetEndTime, targetRangeSec, targetBinSec) ==
  LET cacheKey == MakeCacheKey(targetEndTime, targetRangeSec, targetBinSec)
      cached == MapGet(s.cacheRef, cacheKey)
      request == Len(s.netLog) + 1
  IN IF cached # {}
     THEN [s |-> s, data |-> {The(cached).data}, pid |-> {}, issued |-> FALSE]
     ELSE [s |-> [s EXCEPT
                    !.netLog = Append(@, [key |-> cacheKey, status |-> "pending",
                                          response |-> {}]),
                    !.inFlightRef = MapSet(@, cacheKey, request),
                    !.over = @ \/ request > MaxNetCalls],
           data |-> {}, pid |-> {request}, issued |-> TRUE]

\* The synchronous part of fetchStats (lines 235-253, 286): what the call does
\* to the cache, the in-flight table and the network, and what it returns:
\* data (a cache hit), or the promise it awaits (pid).
FetchStatsCall(s, targetEndTime, targetRangeSec, targetBinSec) ==
  LET cacheKey == MakeCacheKey(targetEndTime, targetRangeSec, targetBinSec)
      cached == MapGet(s.cacheRef, cacheKey)
      inFlight == MapGet(s.inFlightRef, cacheKey)
      request == Len(s.netLog) + 1
  IN IF cached # {}
     THEN [s |-> s, data |-> {The(cached).data}, pid |-> {}, issued |-> FALSE]
     ELSE IF inFlight # {}
     THEN [s |-> s, data |-> {}, pid |-> inFlight, issued |-> FALSE]
     ELSE [s |-> [s EXCEPT
                    !.netLog = Append(@, [key |-> cacheKey, status |-> "pending",
                                          response |-> {}]),
                    !.inFlightRef = MapSet(@, cacheKey, request),
                    !.over = @ \/ request > MaxNetCalls],
           data |-> {}, pid |-> {request}, issued |-> TRUE]

\* fetchStats called by `caller` (a loadRange's requestId, or 0 for a prefetch):
\* the call, its entry in the task's log, and the caller suspended on the
\* promise when the call did not return from the cache
FetchStats(s, targetEndTime, targetRangeSec, targetBinSec, caller, avail) ==
  LET cacheKey == MakeCacheKey(targetEndTime, targetRangeSec, targetBinSec)
      r == FetchStatsCall(s, targetEndTime, targetRangeSec, targetBinSec)
      entry == [ key |-> cacheKey,
                 caller |-> caller,
                 cached |-> MapHas(s.cacheRef, cacheKey),
                 inFlight |-> MapGet(s.inFlightRef, cacheKey),
                 issued |-> r.issued,
                 data |-> r.data,
                 pid |-> r.pid,
                 unchanged |-> /\ r.s.cacheRef = s.cacheRef
                               /\ r.s.inFlightRef = s.inFlightRef
                               /\ r.s.netLog = s.netLog ]
      w == [ id |-> caller, pid |-> r.pid, endTime |-> targetEndTime,
             rangeSec |-> targetRangeSec, binSec |-> targetBinSec,
             avail |-> avail, issuer |-> r.issued ]
  IN [r.s EXCEPT !.fetchLog = Append(@, entry),
                 !.waiters = IF r.pid # {} THEN @ \cup {w} ELSE @]

\* the test on availableMin left out: the previous window is always fetched
CanPrefetchPrevAlways(availableMin, prevEnd, rangeMs) == TRUE

\* canPrefetchPrev (lines 314-315)
CanPrefetchPrev(availableMin, prevEnd, rangeMs) ==
  availableMin = {} \/ prevEnd - rangeMs >= The(availableMin)

\* the following window tested by its start instead of its end
CanPrefetchNextByStart(availableMax, nextEnd, rangeMs) ==
  availableMax = {} \/ nextEnd - rangeMs <= The(availableMax)

\* canPrefetchNext (line 316)
CanPrefetchNext(availableMax, nextEnd, rangeMs) ==
  availableMax = {} \/ nextEnd <= The(availableMax)

\* prefetchAdjacent (lines 296-330); avail is the availableRange of the render
\* whose closure the call runs in. The call is recorded in prefetchLog with
\* the keys of the fetchStats calls it made.
PrefetchAdjacent(s, targetEndTime, targetRangeSec, targetBinSec, data, avail) ==
  LET rangeMs == targetRangeSec * 1000
      currentStart == targetEndTime - rangeMs
      availableMin == OrElse(ParseMetaTime(MetaAvailableMin(data)), avail.min)
      availableMax == OrElse(ParseMetaTime(MetaAvailableMax(data)), avail.max)
      prevEnd == currentStart
      nextEnd == targetEndTime + rangeMs
      canPrefetchPrev == CanPrefetchPrev(availableMin, prevEnd, rangeMs)
      canPrefetchNext == CanPrefetchNext(availableMax, nextEnd, rangeMs)
      s1 == IF canPrefetchPrev
            THEN FetchStats(s, prevEnd, targetRangeSec, targetBinSec, 0, avail)
            ELSE s
      s2 == IF canPrefetchNext
            THEN FetchStats(s1, nextEnd, targetRangeSec, targetBinSec, 0, avail)
            ELSE s1
      entry == [ targetEndTime |-> targetEndTime,
                 targetRangeSec |-> targetRangeSec,
                 targetBinSec |-> targetBinSec,
                 metaMin |-> ParseMetaTime(MetaAvailableMin(data)),
                 metaMax |-> ParseMetaTime(MetaAvailableMax(data)),
                 knownMin |-> avail.min,
                 knownMax |-> avail.max,
                 calls |-> { s2.fetchLog[i].key :
                             i \in (Len(s.fetchLog) + 1)..Len(s2.fetchLog) } ]
  IN [s2 EXCEPT !.prefetchLog = Append(@, entry)]

\* the requestId comparison left out: every continuation counts as current
IsCurrentAlways(requestId, current) == TRUE

\* if (requestId !== requestIdRef.current) return  (lines 356, 381, 388)
IsCurrent(requestId, current) == requestId = current

\* a catch block without the finally block that ends loading
LoadRangeFailedStillLoading(s, message) ==
  [s EXCEPT !.error = {message}]

\* a catch block that also clears the chart
LoadRangeFailedClear(s, message) ==
  [s EXCEPT !.error = {message}, !.chartData = {}, !.loading = FALSE]

\* the catch and finally blocks of the current loadRange (lines 380-391)
LoadRangeFailed(s, message) ==
  [s EXCEPT !.error = {message}, !.loading = FALSE]

\* loadRange from the point its data is known (lines 356-391): outcome is
\* [ok, data, message], w the suspended call [id, endTime, rangeSec, binSec, avail]
LoadRangeResume(s, w, outcome) ==
  LET s0 == [s EXCEPT !.resumed =
               Append(@, [id |-> w.id, current |-> w.id = s.requestIdRef,
                          ok |-> outcome.ok])]
  IN IF ~IsCurrent(w.id, s.requestIdRef) THEN s0
     ELSE IF outcome.ok
     THEN LET data == outcome.data
              metaMin == ParseMetaTime(MetaAvailableMin(data))
              metaMax == ParseMetaTime(MetaAvailableMax(data))
              next == [min |-> metaMin, max |-> metaMax]
              s1 == [s0 EXCEPT !.chartData = {data}, !.error = {},
                               !.isInitialLoadRef = FALSE]
              s2 == IF metaMin # {} /\ metaMax # {} /\ s1.availableRange # next
                    THEN [s1 EXCEPT !.availableRange = next,
                                    !.effectPending = TRUE]
                    ELSE s1
              s3 == PrefetchAdjacent(s2, w.endTime, w.rangeSec, w.binSec,
                                     data, w.avail)
          IN [s3 EXCEPT !.loading = FALSE]
     ELSE LoadRangeFailed(s0, outcome.message)

\* loadRange that reuses the current requestId instead of incrementing it
LoadRangeNoBump(s, targetEndTime, targetRangeSec, targetBinSec) ==
  LET requestId == s.requestIdRef
      s1 == [s EXCEPT !.loadCount = @ + 1,
                      !.over = @ \/ s.loadCount >= MaxRequestId]
  IN FetchStats([s1 EXCEPT !.loading = TRUE], targetEndTime,
                targetRangeSec, targetBinSec, requestId, s.availableRange)

\* loadRange up to its await (lines 338-355)
LoadRange(s, targetEndTime, targetRangeSec, targetBinSec) ==
  LET requestId == s.requestIdRef + 1
      cacheKey == MakeCacheKey(targetEndTime, targetRangeSec, targetBinSec)
      cached == MapGet(s.cacheRef, cacheKey)
      s1 == [s EXCEPT !.requestIdRef = requestId,
                      !.loadCount = @ + 1,
                      !.over = @ \/ s.loadCount >= MaxRequestId]
      w == [ id |-> requestId, pid |-> {}, endTime |-> targetEndTime,
             rangeSec |-> targetRangeSec, binSec |-> targetBinSec,
             avail |-> s.availableRange, issuer |-> FALSE ]
  IN IF cached # {}
     THEN LoadRangeResume(
            [s1 EXCEPT !.chartData = {The(cached).data}, !.error = {},
                       !.loading = FALSE],
            w, [ok |-> TRUE, data |-> The(cached).data, message |-> ""])
     ELSE FetchStats([s1 EXCEPT !.loading = TRUE], targetEndTime,
                     targetRangeSec, targetBinSec, requestId, s.availableRange)

\* the continuations of the loadRange calls in ws, in the order they were started
RECURSIVE ResumeAll(_, _, _)
ResumeAll(s, ws, outcome) ==
  IF ws = {} THEN s
  ELSE LET w == CHOOSE x \in ws : \A y \in ws : x.id <= y.id
       IN ResumeAll(LoadRangeResume(s, w, outcome), ws \ {w}, outcome)

\* the useState values (lines 43-52) after a task that took the component
\* from old to s: React drops the updates of a component that is unmounted,
\* the refs keep what the task wrote
Rendered(old, s) ==
  IF old.mounted THEN s
  ELSE [s EXCEPT !.chartData = old.chartData,
                 !.loading = old.loading,
                 !.error = old.error,
                 !.availableRange = old.availableRange,
                 !.cachedData = old.cachedData,
                 !.effectPending = old.effectPending]

\* the cache written whatever the outcome of the request
CacheSettledAlways(cache, cacheKey, resp, loadedAt) ==
  EvictOldestCache(MapSet(cache, cacheKey,
                          [data |-> resp.data, loadedAt |-> loadedAt]))

\* the cache after the .then callback of fetchStats (lines 255-283): the
\* callback throws before cacheRef.current.set when the request failed, else
\* it stores the window and calls evictOldestCache
CacheSettled(cache, cacheKey, resp, loadedAt) ==
  IF resp.ok
  THEN EvictOldestCache(MapSet(cache, cacheKey,
                               [data |-> resp.data, loadedAt |-> loadedAt]))
  ELSE cache

\* a prefetch whose failure is shown like a failure of loadRange
PrefetchSettledShown(s, outcome) ==
  IF outcome.ok THEN s ELSE [s EXCEPT !.error = {outcome.message}]

\* a prefetched window that prefetches its own neighbours in turn
PrefetchSettledCascade(s, outcome) ==
  IF outcome.ok
  THEN PrefetchAdjacent(s, outcome.data.key[1], outcome.data.key[2],
                        outcome.data.key[3], outcome.data, s.availableRange)
  ELSE s

\* the continuation of a fetchStats call made by prefetchAdjacent: the result
\* is dropped, the error swallowed by .catch(() => undefined) (lines 318-327)
PrefetchSettled(s, outcome) == s

\* the in-flight table kept as it is when the request failed
InFlightKeptOnFailure(inFlight, cacheKey, ok) ==
  IF ok THEN MapDelete(inFlight, cacheKey) ELSE inFlight

\* finally { inFlightRef.current.delete(cacheKey) } (lines 288-290), reached
\* whether the awaited request was fulfilled (ok) or rejected
InFlightSettled(inFlight, cacheKey, ok) == MapDelete(inFlight, cacheKey)

\* The task in which the response to request pid arrives: the .then callback of
\* fetchStats (lines 255-284), the finally of the issuing call (line 290), then
\* the continuation of every call suspended on the promise.
SettleRequest(s, pid, response) ==
  LET cacheKey == s.netLog[pid].key
      resp == ParseResponse(response)
      cache == CacheSettled(s.cacheRef, cacheKey, resp, s.now)
      mine == {w \in s.waiters : w.pid = {pid}}
      s1 == [s EXCEPT
               !.cacheRef = cache,
               !.cachedData = IF resp.ok THEN cache ELSE @,
               !.netLog[pid].status = IF resp.ok THEN "ok" ELSE "fail",
               !.netLog[pid].response = {response},
               !.inFlightRef = InFlightSettled(@, cacheKey, resp.ok),
               !.waiters = @ \ mine]
      s2 == ResumeAll(s1, {w \in mine : w.id > 0}, resp)
  IN Rendered(s, IF \E w \in mine : w.id = 0
                 THEN PrefetchSettled(s2, resp)
                 ELSE s2)

(************************* series assembly **********************************)
\* dataByType[type] = new Map() for every type of meta.types (lines 134-143),
\* over the first n types of the sequence
RECURSIVE DeclareTypes(_, _, _)
DeclareTypes(dataByType, types, n) ==
  IF n = 0 THEN dataByType
  ELSE LET acc == DeclareTypes(dataByType, types, n - 1)
       IN IF MapHas(acc, types[n]) THEN acc ELSE MapSet(acc, types[n], << >>)

\* the first loop over cachedData.values() (lines 134-139), first n windows
RECURSIVE AllTypes(_, _)
AllTypes(cache, n) ==
  IF n = 0 THEN << >>
  ELSE LET types == MetaTypes(cache[n].val.data)
       IN DeclareTypes(AllTypes(cache, n - 1), types, Len(types))

\* bins.forEach that overwrites the value instead of adding to it
RECURSIVE AddBinsOverwrite(_, _, _, _)
AddBinsOverwrite(map, bins, values, n) ==
  IF n = 0 THEN map
  ELSE LET acc == AddBinsOverwrite(map, bins, values, n - 1)
           value == IF n <= Len(values) THEN values[n] ELSE 0
       IN MapSet(acc, bins[n], value)

\* bins.forEach (lines 153-157) over the first n bins:
\* value = values[index] ?? 0, existing = map.get(bin) ?? 0
RECURSIVE AddBins(_, _, _, _)
AddBins(map, bins, values, n) ==
  IF n = 0 THEN map
  ELSE LET acc == AddBins(map, bins, values, n - 1)
           value == IF n <= Len(values) THEN values[n] ELSE 0
           existing == The(OrElse(MapGet(acc, bins[n]), {0}))
       IN MapSet(acc, bins[n], existing + value)

\* Object.entries(countsByType).forEach (lines 148-158), first n entries
RECURSIVE AddCounts(_, _, _, _)
AddCounts(dataByType, counts, bins, n) ==
  IF n = 0 THEN dataByType
  ELSE LET acc == AddCounts(dataByType, counts, bins, n - 1)
           type == counts[n].type
           map == The(OrElse(MapGet(acc, type), {<< >>}))
       IN MapSet(acc, type, AddBins(map, bins, counts[n].values, Len(bins)))

\* the second loop over cachedData.values() (lines 145-159), first n windows
RECURSIVE AddWindows(_, _)
AddWindows(cache, n) ==
  IF n = 0 THEN AllTypes(cache, Len(cache))
  ELSE LET data == cache[n].val.data
           countsByType == CountsByType(data)
       IN AddCounts(AddWindows(cache, n - 1), countsByType, Bins(data),
                    Len(countsByType))

\* Array.from(map.entries()).sort((a, b) => a[0] - b[0]) (lines 164-166): the
\* keys of a Map are distinct, so the i-th pair is the one with i - 1 smaller keys
SortByBin(map) ==
  [i \in 1..Len(map) |->
     LET e == CHOOSE x \in 1..Len(map) :
                Cardinality({y \in 1..Len(map) : map[y].key < map[x].key}) = i - 1
     IN << map[e].key, map[e].val >>]

\* seriesData (lines 131-170): per type, the [bin, value] pairs in bin order
SeriesData(cache) ==
  LET dataByType == AddWindows(cache, Len(cache))
  IN [i \in 1..Len(dataByType) |->
        [type |-> dataByType[i].key, data |-> SortByBin(dataByType[i].val)]]

\* visibleSeriesData (lines 173-183)
VisibleSeriesData(series, start, end) ==
  LET Visible(pair) == pair[1] >= start /\ pair[1] <= end
  IN [i \in 1..Len(series) |->
        [type |-> series[i].type, data |-> SelectSeq(series[i].data, Visible)]]

(************************* range / zoom controller **************************)
\* getOptimalBinSec (src/unnamed/part_006 lines 75-92)
GetOptimalBinSec(span) ==
  IF span <= 6 * 60 * 60 THEN 60
  ELSE IF span <= 3 * 24 * 60 * 60 THEN 5 * 60
  ELSE IF span <= 14 * 24 * 60 * 60 THEN 15 * 60
  ELSE IF span <= 60 * 24 * 60 * 60 THEN 60 * 60
  ELSE 4 * 60 * 60

\* allRangeSec (lines 74-82): {} for null
AllRangeSec(avail) ==
  IF avail.min = {} \/ avail.max = {} THEN {}
  ELSE LET diffSec == RoundDiv(The(avail.max) - The(avail.min), 1000)
       IN IF diffSec > 0 THEN {diffSec} ELSE {}

\* rangeOptions (lines 84-97)
RangeOptions(avail) ==
  IF AllRangeSec(avail) = {} THEN RANGE_OPTIONS
  ELSE Append(RANGE_OPTIONS,
              [id |-> "all", seconds |-> The(AllRangeSec(avail)),
               binSec |-> GetOptimalBinSec(The(AllRangeSec(avail)))])

\* minRangeSec (lines 108-111)
MinRangeSec(zoomLimit) ==
  Min(zoomLimit, Max(MIN_RANGE_SEC, RoundDiv(zoomLimit, MIN_RANGE_RATIO_DEN)))

\* the dependencies endTime, rangeSec, binSec of the effect at lines 396-398
ViewOf(s) == << s.endTime, s.selectedOption.seconds, s.selectedOption.binSec >>

\* after a handler's setters: the effect is due when a dependency changed
WithEffect(old, s) ==
  [s EXCEPT !.effectPending = @ \/ ViewOf(s) # ViewOf(old)]

\* handleRangeClick that ends every view at Date.now()
HandleRangeClickNow(s, option) ==
  WithEffect(s, [s EXCEPT !.selectedOption = option,
                          !.zoomLimitSec = option.seconds,
                          !.endTime = s.now,
                          !.isInitialLoadRef = FALSE,
                          !.clickLog = {option}])

\* handleRangeClick (lines 408-417)
HandleRangeClickOp(s, option) ==
  LET targetEnd == IF option.id = "all" /\ s.availableRange.max # {}
                      /\ The(s.availableRange.max) # 0
                   THEN The(s.availableRange.max)
                   ELSE s.now
  IN WithEffect(s, [s EXCEPT !.selectedOption = option,
                             !.zoomLimitSec = option.seconds,
                             !.endTime = targetEnd,
                             !.isInitialLoadRef = FALSE,
                             !.clickLog = {option}])

\* the sticky span with a tolerance of 2 s whatever the selected span
EffectiveRawRangeSecFixed(selectedSeconds, rawRangeSec) ==
  IF Abs(rawRangeSec - selectedSeconds) <= 2 THEN selectedSeconds ELSE rawRangeSec

\* the sticky span of handleZoomRange (lines 428-436)
EffectiveRawRangeSec(selectedSeconds, rawRangeSec) ==
  LET stickyRangeToleranceSec == Max(2, RoundDiv(selectedSeconds, 100))
  IN IF Abs(rawRangeSec - selectedSeconds) <= stickyRangeToleranceSec
     THEN selectedSeconds
     ELSE rawRangeSec

\* the clamp without its lower bound
BoundedRangeSecNoFloor(effectiveRawRangeSec, zoomLimit) ==
  Min(effectiveRawRangeSec, zoomLimit)

\* boundedRangeSec (lines 438-441)
BoundedRangeSec(effectiveRawRangeSec, zoomLimit) ==
  Max(Min(effectiveRawRangeSec, zoomLimit), MinRangeSec(zoomLimit))

\* handleZoomRange up to the no-op test (lines 425-447): the span and the end
\* time the gesture asks for
\* nextEndTime that always keeps the gesture's end
NextEndTimeAtEnd(actualStart, actualEnd, effectiveRawRangeSec, boundedRangeSec) ==
  RoundDiv(actualEnd, 1)

\* rangeDiff and nextEndTime (lines 443-447)
NextEndTime(actualStart, actualEnd, effectiveRawRangeSec, boundedRangeSec) ==
  LET rangeDiff == effectiveRawRangeSec - boundedRangeSec
  IN IF rangeDiff # 0
     THEN RoundDiv(actualStart + boundedRangeSec * 1000, 1)
     ELSE RoundDiv(actualEnd, 1)

ZoomTarget(s, startMs, endMs) ==
  LET actualStart == Min(startMs, endMs)
      actualEnd == Max(startMs, endMs)
      rawRangeSec == RoundDiv(actualEnd - actualStart, 1000)
      effectiveRawRangeSec ==
        EffectiveRawRangeSec(s.selectedOption.seconds, rawRangeSec)
      boundedRangeSec == BoundedRangeSec(effectiveRawRangeSec, s.zoomLimitSec)
      nextEndTime == NextEndTime(actualStart, actualEnd, effectiveRawRangeSec,
                                 boundedRangeSec)
  IN [ actualStart |-> actualStart,
       actualEnd |-> actualEnd,
       rawRangeSec |-> rawRangeSec,
       effectiveRawRangeSec |-> effectiveRawRangeSec,
       boundedRangeSec |-> boundedRangeSec,
       nextEndTime |-> nextEndTime ]

\* the no-op test left out
IsNoOpNever(nextEndTime, currentEndTime, boundedRangeSec, currentRangeSec) == FALSE

\* the no-op test of lines 449-454
IsNoOp(nextEndTime, currentEndTime, boundedRangeSec, currentRangeSec) ==
  /\ Abs(nextEndTime - currentEndTime) < 1000
  /\ Abs(boundedRangeSec - currentRangeSec) < 1

\* clearTimeout left out
ClearTimeoutNothing(live, ref) == live

\* if (zoomDebounceRef.current) window.clearTimeout(zoomDebounceRef.current)
\* (lines 456-458, 402-404): the live timers that remain
ClearTimeout(live, ref) == {t \in live : {t.id} # ref}

\* the id window.setTimeout returns.  Ids are handles: the model takes the
\* smallest one that no live timer has (the ref is overwritten with it).
FreshTimerId(live) ==
  CHOOSE i \in 1..(Cardinality(live) + 1) :
    /\ \A t \in live : t.id # i
    /\ \A j \in 1..(i - 1) : \E t \in live : t.id = j

\* handleZoomRange (lines 419-479): the pending timer is cleared and a new one
\* is set whose callback closes over the values of this call
HandleZoomRangeOp(s, startMs, endMs) ==
  LET t == ZoomTarget(s, startMs, endMs)
      noop == IsNoOp(t.nextEndTime, s.endTime,
                     t.boundedRangeSec, s.selectedOption.seconds)
      remaining == ClearTimeout(s.timers, s.zoomDebounceRef)
      id == FreshTimerId(remaining)
      s0 == [s EXCEPT !.zoomLog =
               {[ actualStart |-> t.actualStart,
                  actualEnd |-> t.actualEnd,
                  selectedSeconds |-> s.selectedOption.seconds,
                  zoomLimitSec |-> s.zoomLimitSec,
                  endTime |-> s.endTime,
                  rawRangeSec |-> t.rawRangeSec,
                  effectiveRawRangeSec |-> t.effectiveRawRangeSec,
                  boundedRangeSec |-> t.boundedRangeSec,
                  nextEndTime |-> t.nextEndTime,
                  pendingBefore |-> s.timers # {} ]}]
  IN IF s.isInitialLoadRef THEN s
     ELSE IF noop THEN s0
     ELSE [s0 EXCEPT
             !.timers = remaining \cup
               {[ id |-> id,
                  boundedRangeSec |-> t.boundedRangeSec,
                  nextEndTime |-> t.nextEndTime,
                  rangeOptions |-> RangeOptions(s.availableRange),
                  selectedOption |-> s.selectedOption ]},
             !.zoomDebounceRef = {id}]

\* rangeOptions.find(...) of line 461: the first option within one second
FindOption(options, seconds) ==
  LET hits == {i \in 1..Len(options) : Abs(options[i].seconds - seconds) <= 1}
  IN IF hits = {} THEN {}
     ELSE {options[CHOOSE i \in hits : \A j \in hits : i <= j]}

\* a custom selection whose resolution is recomputed from its span
CustomOptionOptimal(boundedRangeSec, selected) ==
  [id |-> "custom", seconds |-> boundedRangeSec,
   binSec |-> GetOptimalBinSec(boundedRangeSec)]

\* the option the timer callback selects for an unmatched span (lines 468-473)
CustomOption(boundedRangeSec, selected) ==
  [id |-> "custom", seconds |-> boundedRangeSec, binSec |-> selected.binSec]

\* the timer callback (lines 460-476) of the live timer c
ZoomCommitOp(s, c) ==
  LET matchedOption == FindOption(c.rangeOptions, c.boundedRangeSec)
      s1 == IF matchedOption # {}
            THEN [s EXCEPT !.selectedOption = The(matchedOption),
                           !.zoomLimitSec = The(matchedOption).seconds]
            ELSE IF Abs(c.boundedRangeSec - c.selectedOption.seconds) > 1
            THEN [s EXCEPT !.selectedOption =
                    CustomOption(c.boundedRangeSec, c.selectedOption)]
            ELSE s
  IN WithEffect(s, [s1 EXCEPT !.endTime = c.nextEndTime,
                              !.timers = @ \ {c}])

\* the two revisions of utils/time the sources hold (part_006 lines 1-43 and
\* lines 45-92)
TimeRevisions == {1, 2}

\* normalizeZoomRange; an argument is {} for undefined and {n} for a number,
\* the result {} for undefined / null and {<<startMs, endMs>>} for a range.
\* Revision 1 (lines 36-43) swaps a reversed pair, revision 2 (lines 62-70)
\* rejects every pair with startValue >= endValue.
NormalizeZoomRange(revision, startValue, endValue) ==
  IF startValue = {} \/ endValue = {} THEN {}
  ELSE LET startMs == The(startValue)
           endMs == The(endValue)
       IN IF revision = 1
          THEN IF startMs <= endMs
               THEN {<< startMs, endMs >>}
               ELSE {<< endMs, startMs >>}
          ELSE IF startMs >= endMs
               THEN {}
               ELSE {<< startMs, endMs >>}

\* the onZoomRange prop of AccessChart is ChartSection's handleZoomRange
\* (ChartSection line 550); the calls made in a task are kept in called
OnZoomRange(s, startMs, endMs) ==
  HandleZoomRangeOp([s EXCEPT !.accessChart.called =
                       Append(@, << startMs, endMs >>)],
                    startMs, endMs)

\* the chart's dataZoom handler (AccessChart lines 779-874): the event's
\* values and the chart's own zoom option agree, so normalizedRange is
\* normalizeZoomRange of the event's values; without a range the handler
\* returns; while the pointer is down the range goes to the pending slot;
\* otherwise onZoomRange is called
HandleZoomOp(s, revision, startValue, endValue) ==
  LET normalizedRange == NormalizeZoomRange(revision, startValue, endValue)
      s0 == [s EXCEPT !.chartLog = {[ revision |-> revision,
                                      startValue |-> startValue,
                                      endValue |-> endValue,
                                      normalizedRange |-> normalizedRange ]},
                      !.accessChart.event = "dataZoom"]
  IN IF normalizedRange = {} THEN s0
     ELSE IF s.accessChart.isPointerDownRef
     THEN [s0 EXCEPT !.accessChart.pendingZoomRangeRef = normalizedRange]
     ELSE OnZoomRange(s0, The(normalizedRange)[1], The(normalizedRange)[2])

\* flushPendingZoom without the assignment of line 763
FlushPendingZoomKeep(s) ==
  LET pendingRange == s.accessChart.pendingZoomRangeRef
  IN IF pendingRange = {} THEN s
     ELSE OnZoomRange(s, The(pendingRange)[1], The(pendingRange)[2])

\* flushPendingZoom (AccessChart lines 758-765)
FlushPendingZoom(s) ==
  LET pendingRange == s.accessChart.pendingZoomRangeRef
  IN IF pendingRange = {} THEN s
     ELSE OnZoomRange([s EXCEPT !.accessChart.pendingZoomRangeRef = {}],
                      The(pendingRange)[1], The(pendingRange)[2])

\* handlePointerDown (AccessChart lines 768-770)
HandlePointerDownOp(s) ==
  [s EXCEPT !.accessChart.isPointerDownRef = TRUE]

\* handlePointerUp (AccessChart lines 771-777)
HandlePointerUpOp(s) ==
  IF ~s.accessChart.isPointerDownRef THEN s
  ELSE FlushPendingZoom([s EXCEPT !.accessChart.isPointerDownRef = FALSE])

\* the cleanup of the effect of lines 400-406
UnmountOp(s) ==
  [s EXCEPT !.timers = ClearTimeout(@, s.zoomDebounceRef),
            !.mounted = FALSE]

(************************* SummaryProvider **********************************)
\* loadSummary calls made in one run
MaxSummaryCalls == 3

\* the useState values of SummaryProvider
SummaryValues(sp) ==
  << sp.summary, sp.error, sp.loading, sp.refreshing, sp.refreshSignal >>

\* loadSummary up to its first await (lines 25-35): a call is
\* [requestId, forceRefresh, await], await being the promise it is suspended
\* on, "fetch" or "json"
LoadSummary(sp, forceRefresh) ==
  LET requestId == sp.requestIdRef + 1
  IN [sp EXCEPT !.requestIdRef = requestId,
                !.refreshing = IF forceRefresh THEN TRUE ELSE @,
                !.loading = IF forceRefresh THEN @ ELSE TRUE,
                !.error = {},
                !.calls = @ \cup {[ requestId |-> requestId,
                                    forceRefresh |-> forceRefresh,
                                    await |-> "fetch" ]}]

\* the requestId comparison left out of loadSummary
LoadSummaryIsCurrentAlways(requestId, current) == TRUE

\* requestId === requestIdRef.current (lines 40, 46, 53)
LoadSummaryIsCurrent(requestId, current) == requestId = current

\* loadSummary from the point its outcome [ok, data, message] is known (lines
\* 40-57); React drops the updates of an unmounted component
LoadSummaryEnd(sp, c, outcome) ==
  LET s0 == [sp EXCEPT !.calls = @ \ {c},
                       !.ended = {[ requestId |-> c.requestId,
                                    current |-> c.requestId = sp.requestIdRef,
                                    ok |-> outcome.ok ]}]
  IN IF ~LoadSummaryIsCurrent(c.requestId, sp.requestIdRef) \/ ~sp.mounted
     THEN s0
     ELSE IF outcome.ok
     THEN [s0 EXCEPT !.summary = {outcome.data}, !.error = {},
                     !.loading = FALSE, !.refreshing = FALSE]
     ELSE [s0 EXCEPT !.error = {outcome.message},
                     !.loading = FALSE, !.refreshing = FALSE]

\* the fetch of call c settles (lines 35-38): response is "network" for a
\* rejected fetch, else the status
SummaryFetchSettled(sp, c, response) ==
  IF response = "network"
  THEN LoadSummaryEnd(sp, c, [ok |-> FALSE, data |-> 0,
                              message |-> "Failed to fetch"])
  ELSE IF response # "200"
  THEN LoadSummaryEnd(sp, c, [ok |-> FALSE, data |-> 0,
                              message |-> "Request failed: 500"])
  ELSE [sp EXCEPT !.calls = (@ \ {c}) \cup {[c EXCEPT !.await = "json"]}]

\* response.json() of call c settles (line 39): body is {} when the body is
\* not JSON, else {data}
SummaryJsonSettled(sp, c, body) ==
  IF body = {}
  THEN LoadSummaryEnd(sp, c, [ok |-> FALSE, data |-> 0,
                              message |-> "SyntaxError"])
  ELSE LoadSummaryEnd(sp, c, [ok |-> TRUE, data |-> The(body), message |-> ""])

\* refresh (lines 68-71)
SummaryRefreshOp(sp) ==
  LoadSummary([sp EXCEPT !.refreshSignal = @ + 1], TRUE)

\* the cleanup of the effect (lines 63-65)
SummaryUnmountOp(sp) ==
  [sp EXCEPT !.requestIdRef = @ + 1, !.mounted = FALSE]

(************************* inputs *******************************************)
\* the range buttons the user presses
ClickIds == {"7d", "all"}
\* the end times a pan may ask for
PanMin == T0 - DEFAULT_OPTION.seconds * 1000
PanMax == T0 + MaxClock + DEFAULT_OPTION.seconds * 1000
\* the gestures the chart reports in the state s: a pan by one window to the
\* left and one to the right
Gestures(s) ==
  LET e == s.endTime
      w == s.selectedOption.seconds * 1000
  IN {g \in {<< e - 2 * w, e - w >>, << e, e + w >>} :
        g[2] >= PanMin /\ g[2] <= PanMax}

\* the zoom gestures the chart reports in the state s, all ending where the
\* view ends: spans just inside and just outside 1% of the selected span and
\* of the zoom limit, the span of a small drag, a zoom to ZoomInSec and a
\* zoom to ShortSec
ZoomInSec == 100000
ShortSec == 30
ZoomSpans(s) ==
  LET sel == s.selectedOption.seconds
      tolSel == Max(2, RoundDiv(sel, 100))
      tolLim == Max(2, RoundDiv(s.zoomLimitSec, 100))
  IN { sel + 50, sel + tolSel, sel + tolSel + 1, sel - tolSel - 1,
       sel + tolLim, ZoomInSec, ShortSec }
\* the preset buttons the user presses while zooming (30D is left out: its
\* span in milliseconds is outside the model's integers)
PresetIds == {"1h", "1d", "7d", "all"}
\* the values a dataZoom event of the chart carries: an ordered pair, the
\* same pair reversed, an empty range and an event without a start value
ZoomEvents ==
  { << {1000}, {5000} >>, << {5000}, {1000} >>, << {1000}, {1000} >>,
    << {}, {1000} >> }
\* the zrender events that press and release the pointer (AccessChart lines
\* 877-881)
PointerDownEvents == {"mousedown", "touchstart"}
PointerUpEvents == {"mouseup", "globalout", "touchend"}
\* the dataZoom events of a drag: two ranges that differ, and an event
\* without a start value
DragEvents == { << {1000}, {5000} >>, << {2000}, {5000} >>, << {}, {1000} >> }
\* the distances in milliseconds of a pan that barely moves the view
NudgeMs == {999, 1000}
ZoomGestures(s) ==
  {<< s.endTime - span * 1000, s.endTime >> : span \in ZoomSpans(s)}
    \cup {<< s.endTime - s.selectedOption.seconds * 1000 - d, s.endTime - d >> :
            d \in NudgeMs}

(************************* actions ******************************************)
\* the user presses a range button
HandleRangeClick ==
  /\ mounted
  /\ ~effectPending
  /\ \E i \in 1..Len(RangeOptions(availableRange)) :
       /\ RangeOptions(availableRange)[i].id \in ClickIds
       /\ Commit(HandleRangeClickOp(State, RangeOptions(availableRange)[i]))

\* the user presses a preset button
HandlePresetClick ==
  /\ mounted
  /\ ~effectPending
  /\ \E i \in 1..Len(RangeOptions(availableRange)) :
       /\ RangeOptions(availableRange)[i].id \in PresetIds
       /\ Commit(HandleRangeClickOp(State, RangeOptions(availableRange)[i]))

\* the chart reports a pan or zoom gesture
HandleZoomRange ==
  /\ mounted
  /\ ~effectPending
  /\ \E g \in Gestures(State) :
       /\ [HandleZoomRangeOp(State, g[1], g[2]) EXCEPT !.zoomLog = {}] # State
       /\ Commit(HandleZoomRangeOp(State, g[1], g[2]))

\* the chart reports a zoom gesture
HandleZoomSpan ==
  /\ mounted
  /\ ~effectPending
  /\ \E g \in ZoomGestures(State) :
       Commit(HandleZoomRangeOp(State, g[1], g[2]))

\* the chart raises a dataZoom event
HandleZoom ==
  /\ mounted
  /\ ~effectPending
  /\ \E revision \in TimeRevisions, e \in ZoomEvents :
       Commit(HandleZoomOp(State, revision, e[1], e[2]))

\* the chart raises a dataZoom event in the course of a drag
HandleZoomDrag ==
  /\ mounted
  /\ ~effectPending
  /\ \E e \in DragEvents :
       Commit(HandleZoomOp(State, 2, e[1], e[2]))

\* the pointer is pressed on the chart
HandlePointerDown ==
  /\ mounted
  /\ ~effectPending
  /\ \E e \in PointerDownEvents :
       Commit([HandlePointerDownOp(State) EXCEPT !.accessChart.event = e])

\* the pointer is released or leaves the chart
HandlePointerUp ==
  /\ mounted
  /\ ~effectPending
  /\ \E e \in PointerUpEvents :
       Commit([HandlePointerUpOp(State) EXCEPT !.accessChart.event = e])

\* SummaryProvider's effect runs after mount (lines 60-62)
SummaryEffect ==
  /\ summaryProvider.mounted
  /\ summaryProvider.effectPending
  /\ Commit([State EXCEPT !.summaryProvider =
               LoadSummary([@ EXCEPT !.effectPending = FALSE], FALSE)])

\* a consumer calls refresh()
SummaryRefresh ==
  /\ summaryProvider.mounted
  /\ ~summaryProvider.effectPending
  /\ summaryProvider.requestIdRef < MaxSummaryCalls
  /\ Commit([State EXCEPT !.summaryProvider = SummaryRefreshOp(@)])

\* the fetch of a loadSummary call settles
SummaryFetchSettles ==
  \E c \in summaryProvider.calls, response \in {"200", "500", "network"} :
    /\ c.await = "fetch"
    /\ Commit([State EXCEPT !.summaryProvider =
                 SummaryFetchSettled(@, c, response)])

\* the body of a loadSummary call's response has been read
SummaryJsonSettles ==
  \E c \in summaryProvider.calls, body \in {{}} \cup {{v} : v \in Versions} :
    /\ c.await = "json"
    /\ Commit([State EXCEPT !.summaryProvider =
                 SummaryJsonSettled(@, c, body)])

\* SummaryProvider is unmounted
SummaryUnmount ==
  /\ summaryProvider.mounted
  /\ ~summaryProvider.effectPending
  /\ Commit([State EXCEPT !.summaryProvider = SummaryUnmountOp(@)])

\* the component is unmounted
Unmount ==
  /\ mounted
  /\ Commit(UnmountOp(State))

\* the debounce timer fires
ZoomTimerFires ==
  /\ ~effectPending
  /\ \E c \in timers : Commit(ZoomCommitOp(State, c))

\* the effect of lines 396-398 runs loadRange for the rendered view
RunEffect ==
  /\ mounted
  /\ effectPending
  /\ Commit(LoadRange([State EXCEPT !.effectPending = FALSE],
                      endTime, rangeSec, binSec))

\* the response to an outstanding request arrives
Respond ==
  \E pid \in 1..Len(netLog) :
    /\ netLog[pid].status = "pending"
    /\ \E response \in Responses(netLog[pid].key) :
         Commit(SettleRequest(State, pid, response))

\* an outstanding request ends in a transport error
RespondTransportError ==
  \E pid \in 1..Len(netLog) :
    /\ netLog[pid].status = "pending"
    /\ \E response \in TransportErrors(netLog[pid].key) :
         Commit(SettleRequest(State, pid, response))

\* the response to an outstanding request has a body of another shape
RespondMalformed ==
  \E pid \in 1..Len(netLog) :
    /\ netLog[pid].status = "pending"
    /\ \E response \in MalformedBodies(netLog[pid].key) :
         Commit(SettleRequest(State, pid, response))

\* the wall clock advances
ClockStep ==
  \E t \in T0..(T0 + MaxClock) :
    /\ t > now
    /\ Commit([State EXCEPT !.now = t])

Init ==
  /\ selectedOption = DEFAULT_OPTION
  /\ zoomLimitSec = DEFAULT_OPTION.seconds
  /\ endTime = T0
  /\ chartData = {}
  /\ loading = FALSE
  /\ error = {}
  /\ availableRange = [min |-> {}, max |-> {}]
  /\ cachedData = << >>
  /\ cacheRef = << >>
  /\ inFlightRef = << >>
  /\ requestIdRef = 0
  /\ zoomDebounceRef = {}
  /\ isInitialLoadRef = TRUE
  /\ effectPending = TRUE
  /\ waiters = {}
  /\ netLog = << >>
  /\ now = T0
  /\ loadCount = 0
  /\ fetchLog = << >>
  /\ resumed = << >>
  /\ zoomLog = {}
  /\ timers = {}
  /\ mounted = TRUE
  /\ prefetchLog = << >>
  /\ clickLog = {}
  /\ chartLog = {}
  /\ accessChart = AccessChartInit
  /\ summaryProvider = SummaryProviderInit

\* The chart section from mount on.  Every Date.now() of the run reads T0.
Next ==
  \/ HandleRangeClick
  \/ HandleZoomRange
  \/ ZoomTimerFires
  \/ RunEffect
  \/ Respond

Spec == Init /\ [][Next]_vars

(************************* a session with a warm cache **********************)
\* The cache of a session in progress, one entry short of MAX_CACHE_SIZE, in
\* the order the windows were loaded: the user has walked the 1H view back in
\* time (windows ending at T0, T0 - 1h, T0 - 2h, ...; the server had no bins for
\* them), and the second window loaded was last week's 7D window, whose load
\* timestamp is the smallest of all (the clock had stepped back).
WarmSize == MAX_CACHE_SIZE - 1
WarmKey(i) ==
  IF i = 2
  THEN MakeCacheKey(T0 - DEFAULT_OPTION.seconds * 1000, DEFAULT_OPTION.seconds,
                    DEFAULT_OPTION.binSec)
  ELSE MakeCacheKey(T0 - (i - 1) * RANGE_OPTIONS[1].seconds * 1000,
                    RANGE_OPTIONS[1].seconds, RANGE_OPTIONS[1].binSec)
WarmCache ==
  [i \in 1..WarmSize |->
     [key |-> WarmKey(i),
      val |-> [data |-> MakeData(WarmKey(i), IF i = 2 THEN 2 ELSE 0),
               loadedAt |-> IF i = 2 THEN T0 - 1 ELSE T0]]]

\* ... and the user has just pressed 7D at T0: the view changed, the effect is due
InitSession(avail) ==
  /\ selectedOption = DEFAULT_OPTION
  /\ zoomLimitSec = DEFAULT_OPTION.seconds
  /\ endTime = T0
  /\ chartData = {WarmCache[WarmSize].val.data}
  /\ loading = FALSE
  /\ error = {}
  /\ availableRange = avail
  /\ cachedData = WarmCache
  /\ cacheRef = WarmCache
  /\ inFlightRef = << >>
  /\ requestIdRef = WarmSize
  /\ zoomDebounceRef = {}
  /\ isInitialLoadRef = FALSE
  /\ effectPending = TRUE
  /\ waiters = {}
  /\ netLog = << >>
  /\ now = T0
  /\ loadCount = 0
  /\ fetchLog = << >>
  /\ resumed = << >>
  /\ zoomLog = {}
  /\ timers = {}
  /\ mounted = TRUE
  /\ prefetchLog = << >>
  /\ clickLog = {}
  /\ chartLog = {}
  /\ accessChart = AccessChartInit
  /\ summaryProvider = SummaryProviderInit

\* the windows loaded so far carried no metadata
InitWarm ==
  InitSession([min |-> {}, max |-> {}])

NextWarm ==
  \/ HandleZoomRange
  \/ ZoomTimerFires
  \/ RunEffect
  \/ Respond
  \/ ClockStep

SpecWarm == InitWarm /\ [][NextWarm]_vars

(************************* zooming in a running session *********************)
\* The user zooms faster than the server answers: gestures, debounce timers and
\* the loads they start, from the session above.
NextZoom ==
  \/ HandleZoomSpan
  \/ ZoomTimerFires
  \/ RunEffect
  \/ HandlePresetClick
  \/ HandleZoom

SpecZoom == InitWarm /\ [][NextZoom]_vars

(************************* properties ***************************************)
\* the requests whose response has not arrived
Pending == {p \in 1..Len(netLog) : netLog[p].status = "pending"}
WaiterKey(w) == MakeCacheKey(w.endTime, w.rangeSec, w.binSec)

\* C1: while a request for a window key is in flight, a further fetchStats call
\* for that key issues no network call and awaits the promise of the request
\* in flight, so all callers for the key settle with that one request's
\* outcome: at most one request per key is outstanding, every suspended
\* caller awaits the request the in-flight table holds for its key, and a call
\* that found its key in flight returned that promise and changed nothing.
C1_Coalescing ==
  /\ \A p, q \in Pending : netLog[p].key = netLog[q].key => p = q
  /\ \A w \in waiters :
       /\ w.pid \subseteq Pending
       /\ MapGet(inFlightRef, WaiterKey(w)) = w.pid
       /\ netLog[The(w.pid)].key = WaiterKey(w)
  /\ \A i \in 1..Len(fetchLog) :
       (fetchLog[i].inFlight # {} /\ ~fetchLog[i].cached) =>
          /\ ~fetchLog[i].issued
          /\ fetchLog[i].pid = fetchLog[i].inFlight
          /\ fetchLog[i].unchanged

\* a loadRange has joined a request that a prefetch had started, and both wait
C1_Witness ==
  \E i \in 1..Len(fetchLog) :
    /\ fetchLog[i].inFlight # {}
    /\ fetchLog[i].caller > 0
    /\ ~fetchLog[i].issued
    /\ \E w \in waiters : w.id = 0 /\ w.pid = fetchLog[i].pid
    /\ \E w \in waiters : w.id = fetchLog[i].caller /\ w.pid = fetchLog[i].pid

\* C2 as stated: for each window key only one network call is ever issued.
C2_OneCallEver ==
  \A p, q \in 1..Len(netLog) : netLog[p].key = netLog[q].key => p = q

\* C2 as amended: fetchStats issues a network call for a key only when the key
\* is neither cached nor in flight at the time of the call, so at most one call
\* per key is outstanding, every earlier call for the key has settled, and the
\* callers suspended on a key all await the same request (and so receive an
\* equal result).
C2_OneCallOutstanding ==
  /\ \A i \in 1..Len(fetchLog) :
       fetchLog[i].issued => ~fetchLog[i].cached /\ fetchLog[i].inFlight = {}
  /\ \A p, q \in 1..Len(netLog) :
       (p < q /\ netLog[p].key = netLog[q].key) => netLog[p].status # "pending"
  /\ \A v, w \in waiters : WaiterKey(v) = WaiterKey(w) => v.pid = w.pid

\* a second network call for a key is outstanding after an earlier one failed
C2_Witness ==
  \E p, q \in 1..Len(netLog) :
    /\ p < q
    /\ netLog[p].key = netLog[q].key
    /\ netLog[p].status = "fail"
    /\ netLog[q].status = "pending"

\* C3: between tasks the cache (and the copy of it held in state) has at most
\* MAX_CACHE_SIZE entries, whatever the order of the fetch completions.
C3_CacheBounded ==
  /\ Len(cacheRef) <= MAX_CACHE_SIZE
  /\ Len(cachedData) <= MAX_CACHE_SIZE

\* the cache is full after an insertion has evicted the oldest entry
C3_Witness ==
  /\ Len(cacheRef) = MAX_CACHE_SIZE
  /\ ~MapHas(cacheRef, WarmKey(2))
  /\ \E p \in 1..Len(netLog) : netLog[p].status = "ok"

\* the (key, loadedAt) pairs of a cache
CacheStamps(cache) ==
  {[key |-> cache[i].key, loadedAt |-> cache[i].val.loadedAt] : i \in 1..Len(cache)}

\* C4: a task in which a response is stored inserts one entry stamped with the
\* current time, and when that makes the cache exceed MAX_CACHE_SIZE exactly
\* one entry is removed, one whose loadedAt is the smallest; nothing else
\* changes the cache or a load timestamp: not a task that stores nothing, and
\* not a cache hit (so an entry just read from the cache can be the one evicted).
C4_EvictsOldest ==
  [][ LET stored(p) ==
            {e \in CacheStamps(cacheRef) : e.key # netLog[p].key}
              \cup {[key |-> netLog[p].key, loadedAt |-> now]}
          after == CacheStamps(cacheRef')
          settled == {p \in 1..Len(netLog) :
                        netLog[p].status = "pending" /\ netLog'[p].status = "ok"}
      IN /\ \A p \in settled :
              LET gone == stored(p) \ after
              IN /\ after \subseteq stored(p)
                 /\ IF Cardinality(stored(p)) > MAX_CACHE_SIZE
                    THEN /\ Cardinality(gone) = 1
                         /\ \A g \in gone : \A e \in stored(p) :
                              g.loadedAt <= e.loadedAt
                    ELSE gone = {}
         /\ settled = {} => cacheRef' = cacheRef
         /\ \A i \in 1..Len(fetchLog') :
              fetchLog'[i].cached =>
                \A e \in after : \A f \in CacheStamps(cacheRef) :
                  (e.key = fetchLog'[i].key /\ f.key = e.key) =>
                     e.loadedAt = f.loadedAt
    ]_vars

\* last week's window was returned from the cache to the prefetch of the window
\* ending at T0 (whose response had no meta, so both neighbours were
\* prefetched), and the insertion of the next window's response then evicted it
C4_Witness ==
  /\ ~MapHas(cacheRef, WarmKey(2))
  /\ Len(cacheRef) = MAX_CACHE_SIZE
  /\ chartData = {MakeData(MakeCacheKey(T0, DEFAULT_OPTION.seconds,
                                        DEFAULT_OPTION.binSec), 2)}
  /\ MapHas(cacheRef, MakeCacheKey(T0 + DEFAULT_OPTION.seconds * 1000,
                                   DEFAULT_OPTION.seconds, DEFAULT_OPTION.binSec))

\* C5: a fetchStats call for a key that is cached returns the cached window,
\* issues no network call, awaits no request, and leaves the cache, the
\* in-flight table and the network untouched.
C5_CacheHit ==
  \A i \in 1..Len(fetchLog) :
    fetchLog[i].cached =>
      /\ MapHas(cacheRef, fetchLog[i].key)
      /\ fetchLog[i].data = {The(MapGet(cacheRef, fetchLog[i].key)).data}
      /\ ~fetchLog[i].issued
      /\ fetchLog[i].pid = {}
      /\ fetchLog[i].unchanged
      /\ ~MapHas(inFlightRef, fetchLog[i].key)

\* the last task called fetchStats for a cached key and got a window with bins
C5_Witness ==
  \E i \in 1..Len(fetchLog) :
    /\ fetchLog[i].cached
    /\ \E d \in fetchLog[i].data : d.ver # 0

\* the loadRange continuations run by a task were all superseded
StaleOnly(log) ==
  /\ log # << >>
  /\ \A i \in 1..Len(log) : ~log[i].current

\* C6: a task in which the only loadRange calls that resume are superseded ones
\* (their requestId is no longer requestIdRef) leaves chartData, error,
\* loading, availableRange and isInitialLoadRef as they were, makes no
\* fetchStats call (no prefetch) and schedules no effect.
C6_StaleChangesNothing ==
  [][ StaleOnly(resumed') =>
        /\ UNCHANGED << chartData, error, loading, availableRange,
                        isInitialLoadRef, effectPending, requestIdRef >>
        /\ fetchLog' = << >>
    ]_vars

\* a superseded loadRange has just resumed with a successful response while
\* the newer request is still outstanding and the spinner is still shown
C6_Witness ==
  /\ StaleOnly(resumed)
  /\ \E i \in 1..Len(resumed) : resumed[i].ok
  /\ loading
  /\ \E w \in waiters : w.id = requestIdRef

\* the points of one type in a series ({} when the type is absent or empty)
PointsOf(series, type) ==
  UNION {{series[i].data[j] : j \in 1..Len(series[i].data)} :
           i \in {k \in 1..Len(series) : series[k].type = type}}

\* the points the chart is given for the current window
Displayed(cache, start, end, type) ==
  PointsOf(VisibleSeriesData(SeriesData(cache), start, end), type)

\* C7 as stated: a task in which only superseded loadRange calls resume leaves
\* the points of every type displayed for the current window unchanged.
C7_StaleKeepsVisibleSeries ==
  [][ StaleOnly(resumed') =>
        \A type \in {"cl", "cs"} :
          Displayed(cachedData', rangeStart', endTime', type)
            = Displayed(cachedData, rangeStart, endTime, type)
    ]_vars

\* C8: every change of the view (endTime, rangeSec or binSec) schedules the
\* effect that calls loadRange, every loadRange strictly increases
\* requestIdRef, which never decreases, and once no request is outstanding and
\* the last loadRange started has succeeded (no error is shown), chartData is
\* the window of the current view and the spinner is off.
C8_LastRequestWins ==
  /\ [](  (Pending = {} /\ ~effectPending /\ error = {} /\ requestIdRef > 0)
          => /\ \E d \in chartData :
                  d.key = MakeCacheKey(endTime, rangeSec, binSec)
             /\ ~loading )
  /\ [][ /\ requestIdRef' >= requestIdRef
         /\ loadCount' # loadCount => requestIdRef' > requestIdRef
         /\ (endTime' # endTime \/ rangeSec' # rangeSec \/ binSec' # binSec)
              => effectPending'
         /\ (effectPending /\ ~effectPending') => loadCount' = loadCount + 1
       ]_vars

\* the response of a superseded loadRange has arrived last, after the response
\* of the newest one, and chartData is still the newest window
C8_Witness ==
  /\ Pending = {}
  /\ ~effectPending
  /\ error = {}
  /\ StaleOnly(resumed)
  /\ \E i \in 1..Len(resumed) : resumed[i].ok
  /\ \E d \in chartData : d.key = MakeCacheKey(endTime, rangeSec, binSec)

\* the (entry, index) pairs of a window's countsByType that report `type` at
\* timestamp `bin`
Reports(data, type, bin) ==
  LET counts == CountsByType(data)
      bins == Bins(data)
  IN {c \in 1..Len(counts) : counts[c].type = type}
       \X {j \in 1..Len(bins) : bins[j] = bin}

\* the sum of the counts of the reports in S: 0 where the array is too short
RECURSIVE SumOfReports(_, _)
SumOfReports(data, S) ==
  IF S = {} THEN 0
  ELSE LET e == CHOOSE x \in S : TRUE
           values == CountsByType(data)[e[1]].values
       IN (IF e[2] <= Len(values) THEN values[e[2]] ELSE 0)
            + SumOfReports(data, S \ {e})

\* some entry of the window's countsByType reports `type` at timestamp `bin`
HasReport(data, type, bin) ==
  LET bins == Bins(data)
      counts == CountsByType(data)
  IN /\ \E j \in 1..Len(bins) : bins[j] = bin
     /\ \E c \in 1..Len(counts) : counts[c].type = type

\* the sum over the first n cached windows
RECURSIVE SumOfWindows(_, _, _, _)
SumOfWindows(cache, type, bin, n) ==
  IF n = 0 THEN 0
  ELSE (IF HasReport(cache[n].val.data, type, bin)
        THEN SumOfReports(cache[n].val.data,
                          Reports(cache[n].val.data, type, bin))
        ELSE 0)
         + SumOfWindows(cache, type, bin, n - 1)

\* every timestamp of every cached window
AllBins(cache) ==
  UNION {{Bins(cache[i].val.data)[j] : j \in 1..Len(Bins(cache[i].val.data))} :
           i \in 1..Len(cache)}

\* the cache loaded in the opposite order
Reversed(cache) == [k \in 1..Len(cache) |-> cache[Len(cache) + 1 - k]]

\* the series as a set of (type, timestamp, value) triples
Triples(series) ==
  UNION {{<< series[i].type, series[i].data[j][1], series[i].data[j][2] >> :
            j \in 1..Len(series[i].data)} : i \in 1..Len(series)}

\* C9: in seriesData the value of a type at a timestamp is the sum of the
\* counts the cached windows report for that type at that timestamp (a missing
\* count is 0), a timestamp is listed exactly when some window reports the type
\* there, once and in increasing order, and loading the windows in the opposite
\* order gives the same points.
C9_MergedSeriesIsSum ==
  LET series == SeriesData(cachedData)
      bins == AllBins(cachedData)
  IN /\ \A i \in 1..Len(series) :
          LET data == series[i].data
              type == series[i].type
          IN /\ \A b \in bins :
                  LET at == {j \in 1..Len(data) : data[j][1] = b}
                  IN IF \A n \in 1..Len(cachedData) :
                          ~HasReport(cachedData[n].val.data, type, b)
                     THEN at = {}
                     ELSE /\ Cardinality(at) = 1
                          /\ \A j \in at :
                               data[j][2] = SumOfWindows(cachedData, type, b,
                                                         Len(cachedData))
             /\ \A j \in 1..Len(data) : data[j][1] \in bins
             /\ \A j \in 1..(Len(data) - 1) : data[j][1] < data[j + 1][1]
             /\ \A k \in 1..Len(series) : series[k].type = type => k = i
     /\ Triples(SeriesData(Reversed(cachedData))) = Triples(series)

\* the windows {t1: 5, t2: 7} and {t2: 3, t3: 9} are cached, in either order,
\* and the merged series has 5 at t1, 10 at t2 and 9 at t3
C9_Witness ==
  LET R == DEFAULT_OPTION.seconds * 1000
      cl == PointsOf(SeriesData(cachedData), "cl")
  IN /\ Len(cachedData) = 2
     /\ cachedData[1].val.data.ver = 2
     /\ cachedData[2].val.data.ver = 1
     /\ \E t \in {T0, T0 - R} :
          cl = {<< t - R, 5 >>, << t, 10 >>, << t + R, 9 >>}

\* C10 as stated: the gesture's span snaps to the selected option's span when
\* it is within max(2 s, 1% of zoomLimitSec) of it, and is kept otherwise.
C10_StickyToZoomLimit ==
  \A z \in zoomLog :
    LET tolerance == Max(2, (z.zoomLimitSec + 50) \div 100)
    IN z.effectiveRawRangeSec =
         IF Abs(z.rawRangeSec - z.selectedSeconds) <= tolerance
         THEN z.selectedSeconds
         ELSE z.rawRangeSec

\* C10 as amended: the gesture's span snaps to the selected option's span when
\* it is within max(2 s, 1% of the selected option's span, rounded) of it, and
\* is kept otherwise; the zoom limit plays no part in the tolerance.
C10_StickyToSelected ==
  \A z \in zoomLog :
    LET tolerance == Max(2, (z.selectedSeconds + 50) \div 100)
    IN z.effectiveRawRangeSec =
         IF Abs(z.rawRangeSec - z.selectedSeconds) <= tolerance
         THEN z.selectedSeconds
         ELSE z.rawRangeSec

\* with a custom span selected (below the zoom limit), a gesture further than
\* 1% of the selected span but within 1% of the zoom limit kept its raw span
C10_Witness ==
  \E z \in zoomLog :
    /\ z.selectedSeconds < z.zoomLimitSec
    /\ Abs(z.rawRangeSec - z.selectedSeconds) > (z.selectedSeconds + 50) \div 100
    /\ Abs(z.rawRangeSec - z.selectedSeconds) <= (z.zoomLimitSec + 50) \div 100
    /\ z.effectiveRawRangeSec = z.rawRangeSec

\* the life of the component from mount to unmount with range clicks and a
\* running clock
NextLife ==
  \/ HandleRangeClick
  \/ RunEffect
  \/ Respond
  \/ ClockStep
  \/ Unmount

SpecLife == Init /\ [][NextLife]_vars

\* the component on a network that may fail: pans, no range clicks
NextNet ==
  \/ HandleZoomRange
  \/ ZoomTimerFires
  \/ RunEffect
  \/ Respond
  \/ RespondTransportError

SpecNet == Init /\ [][NextNet]_vars

\* the component with a server that may answer a body of any shape
NextShape ==
  \/ HandleRangeClick
  \/ RunEffect
  \/ Respond
  \/ RespondMalformed

SpecShape == Init /\ [][NextShape]_vars

\* zooming and the range buttons, the ALL button included, in a session whose
\* earlier responses have reported the server's available range
InitBins ==
  InitSession([min |-> {AvailMin}, max |-> {AvailMax}])

NextBins ==
  \/ HandlePresetClick
  \/ HandleZoomSpan
  \/ ZoomTimerFires
  \/ RunEffect

SpecBins == InitBins /\ [][NextBins]_vars

\* The user changes the view a bounded number of times and then waits: a range
\* button is pressed (at T0 or later, as the clock advances) only while the
\* requests the new view may cause (its own and two prefetches) and the loads
\* it may start (its own and a re-run of the effect) fit the bounds of the run,
\* so that no response is held back. The effect runs after every render that
\* changed its dependencies, and every request settles.
Early ==
  /\ Len(netLog) + 3 <= MaxNetCalls
  /\ loadCount + 2 <= MaxRequestId

HandleRangeClickEarly == Early /\ HandleRangeClick

ClockStepEarly == Early /\ ClockStep

NextLive ==
  \/ HandleRangeClickEarly
  \/ ClockStepEarly
  \/ RunEffect
  \/ Respond

SpecLive ==
  /\ Init
  /\ [][NextLive]_vars
  /\ WF_vars(RunEffect)
  /\ WF_vars(Respond)

\* SummaryProvider from mount to unmount, with overlapping loadSummary calls
NextSummary ==
  \/ SummaryEffect
  \/ SummaryRefresh
  \/ SummaryFetchSettles
  \/ SummaryJsonSettles
  \/ SummaryUnmount

SpecSummary == Init /\ [][NextSummary]_vars

C12_NoOpGesture ==
  [][(/\ zoomLog' # {}
      /\ \A z \in zoomLog' :
           /\ Abs(z.nextEndTime - z.endTime) < 1000
           /\ Abs(z.boundedRangeSec - z.selectedSeconds) < 1)
     => (/\ UNCHANGED << selectedOption, zoomLimitSec, endTime, chartData,
                         loading, error, availableRange, cachedData, cacheRef,
                         inFlightRef, requestIdRef, isInitialLoadRef,
                         effectPending, waiters, netLog >>
         /\ UNCHANGED << timers, zoomDebounceRef >>
         /\ fetchLog' = << >>)]_vars

\* a pan of 999 ms with the span of the view has been reported and taken for
\* the current view
C12_Witness ==
  \E z \in zoomLog :
    /\ z.actualEnd = z.endTime - 999
    /\ z.boundedRangeSec = z.selectedSeconds
    /\ z.nextEndTime # z.endTime

\* C17: at most one delayed zoom commit is pending at any time, and it is the
\* one zoomDebounceRef names: scheduling a commit cancels the one scheduled
\* before.
C17_OneTimerPending ==
  /\ Cardinality(timers) <= 1
  /\ \A t \in timers : zoomDebounceRef = {t.id}

\* a gesture arrived while a commit was pending and scheduled its own: one
\* timer is live, carrying the new gesture's target
C17_Witness ==
  \E z \in zoomLog :
    /\ z.pendingBefore
    /\ ~IsNoOp(z.nextEndTime, z.endTime, z.boundedRangeSec, z.selectedSeconds)
    /\ \E t \in timers :
         /\ t.boundedRangeSec = z.boundedRangeSec
         /\ t.nextEndTime = z.nextEndTime
    /\ Cardinality(timers) = 1

\* C18: of the gestures received before the timer fires only the last one is
\* applied: once a gesture has been received, no commit computed from an
\* earlier gesture is pending.
C18_LastGestureWins ==
  \A z \in zoomLog :
    \A t \in timers :
      /\ t.boundedRangeSec = z.boundedRangeSec
      /\ t.nextEndTime = z.nextEndTime

\* the calls of prefetchAdjacent made in the last task, each with the
\* availableMin and availableMax it works with (the window's metadata, else
\* the last known available range) and the keys of the two adjacent windows
Prefetches ==
  { [ p |-> prefetchLog[i],
      availableMin |-> OrElse(prefetchLog[i].metaMin, prefetchLog[i].knownMin),
      availableMax |-> OrElse(prefetchLog[i].metaMax, prefetchLog[i].knownMax),
      rangeMs |-> prefetchLog[i].targetRangeSec * 1000,
      prevKey |-> MakeCacheKey(prefetchLog[i].targetEndTime
                                 - prefetchLog[i].targetRangeSec * 1000,
                               prefetchLog[i].targetRangeSec,
                               prefetchLog[i].targetBinSec),
      nextKey |-> MakeCacheKey(prefetchLog[i].targetEndTime
                                 + prefetchLog[i].targetRangeSec * 1000,
                               prefetchLog[i].targetRangeSec,
                               prefetchLog[i].targetBinSec) ] :
    i \in 1..Len(prefetchLog) }

\* C13: prefetchAdjacent makes no fetchStats call for the previous window when
\* availableMin is known and the previous window's start,
\* targetEndTime - 2 * rangeSec * 1000, is earlier than availableMin; when
\* availableMin is unknown the previous window is always prefetched.
C13_PrevSkippedBeforeMin ==
  \A q \in Prefetches :
    /\ (/\ q.availableMin # {}
        /\ q.p.targetEndTime - 2 * q.rangeMs < The(q.availableMin))
         => q.prevKey \notin q.p.calls
    /\ q.availableMin = {} => q.prevKey \in q.p.calls

\* a window without metadata was loaded while the available range was known,
\* the previous window starts before availableMin and was not prefetched
C13_Witness ==
  \E q \in Prefetches :
    /\ q.p.metaMin = {}
    /\ q.p.knownMin # {}
    /\ q.p.targetEndTime - 2 * q.rangeMs < The(q.p.knownMin)
    /\ q.prevKey \notin q.p.calls

\* C14 as stated: an adjacent window is skipped only when it lies entirely
\* outside the available range: the preceding window is prefetched whenever
\* its end is not before availableMin, the following one whenever its start
\* is not after availableMax.
C14_SkippedOnlyWhenOutside ==
  \A q \in Prefetches :
    /\ (q.availableMin = {}
          \/ q.p.targetEndTime - q.rangeMs >= The(q.availableMin))
         => q.prevKey \in q.p.calls
    /\ (q.availableMax = {}
          \/ q.p.targetEndTime <= The(q.availableMax))
         => q.nextKey \in q.p.calls

\* C14: an adjacent window is prefetched exactly when no part of it lies
\* outside the known available range: the preceding window when availableMin
\* is unknown or its start is not before availableMin, the following one when
\* availableMax is unknown or its end is not after availableMax.
C14_PrefetchedOnlyWhenInside ==
  \A q \in Prefetches :
    /\ q.prevKey \in q.p.calls
         <=> (q.availableMin = {}
                \/ q.p.targetEndTime - 2 * q.rangeMs >= The(q.availableMin))
    /\ q.nextKey \in q.p.calls
         <=> (q.availableMax = {}
                \/ q.p.targetEndTime + q.rangeMs <= The(q.availableMax))

\* the following window starts inside the available range and ends after
\* availableMax, and was not prefetched
C14_Witness ==
  \E q \in Prefetches :
    /\ q.availableMax # {}
    /\ q.p.targetEndTime <= The(q.availableMax)
    /\ q.p.targetEndTime + q.rangeMs > The(q.availableMax)
    /\ q.nextKey \notin q.p.calls

\* C15: normalizing a zoom range given as (start, end) with start > end
\* yields the swapped pair, and normalizing an ordered range (start <= end)
\* returns it unchanged.
C15_NormalizeSwaps ==
  \A c \in chartLog :
    (c.startValue # {} /\ c.endValue # {})
      => LET start == The(c.startValue)
             end == The(c.endValue)
         IN /\ start > end => c.normalizedRange = {<< end, start >>}
            /\ start <= end => c.normalizedRange = {<< start, end >>}

\* C19: until a loadRange has completed successfully (chartData is still
\* empty), no zoom or pan gesture has got past the initial-load test of
\* handleZoomRange: none has scheduled a commit, whatever the user did before.
C19_IgnoredBeforeFirstLoad ==
  chartData = {} => (zoomLog = {} /\ timers = {} /\ zoomDebounceRef = {})

\* C16: after the component is unmounted no continuation of a request started
\* before is current any more: a response that arrives changes none of
\* chartData, error, loading, availableRange and triggers no prefetch.
C16_DiscardedAfterUnmount ==
  [][(~mounted /\ resumed' # << >>)
     => (/\ \A i \in 1..Len(resumed') : ~resumed'[i].current
         /\ UNCHANGED << chartData, error, loading, availableRange >>
         /\ prefetchLog' = << >>
         /\ \A i \in 1..Len(fetchLog') : fetchLog'[i].caller # 0)]_vars

\* C20: pressing a preset sets, in the step of the click itself, rangeSec and
\* zoomLimitSec to the preset's span, binSec to the preset's resolution, and
\* endTime to the current time or, for the "all" preset with the server's
\* maximum known, to that maximum.
C20_PresetIsImmediate ==
  [][\A option \in clickLog' :
       /\ selectedOption'.seconds = option.seconds
       /\ zoomLimitSec' = option.seconds
       /\ selectedOption'.binSec = option.binSec
       /\ endTime' = IF option.id = "all" /\ availableRange.max # {}
                     THEN The(availableRange.max)
                     ELSE now]_vars

\* the "all" preset has been pressed after the clock moved past the server's
\* maximum: the view ends at the maximum, not at the current time
C20_Witness ==
  \E option \in clickLog :
    /\ option.id = "all"
    /\ selectedOption = option
    /\ endTime = The(availableRange.max)
    /\ endTime # now

\* C21: zoomLimitSec changes only through a preset selection: every step
\* that changes it is a call of handleRangeClick, and it then equals the
\* chosen preset's span; no gesture and no debounced commit changes it.
C21_ZoomLimitOnlyByClick ==
  [][zoomLimitSec' # zoomLimitSec
     => (clickLog' # {} /\ \A option \in clickLog' : zoomLimitSec' = option.seconds)]_vars

\* C22: the in-flight table holds an entry for a key exactly while a network
\* request for that key is outstanding: every entry names a pending request
\* for its key, every pending request is in the table under its key, and a
\* settled request (fulfilled or rejected) has left it; once all requests
\* have settled the table is empty.
C22_InFlightWhilePending ==
  /\ \A i \in 1..Len(inFlightRef) :
       /\ inFlightRef[i].val \in Pending
       /\ netLog[inFlightRef[i].val].key = inFlightRef[i].key
  /\ \A p \in Pending : MapGet(inFlightRef, netLog[p].key) = {p}
  /\ Pending = {} => inFlightRef = << >>

\* a request has failed and one has succeeded, both have left the table, and
\* a third is still outstanding and in the table
C22_Witness ==
  /\ \E p \in 1..Len(netLog) :
       netLog[p].status = "fail" /\ ~MapHas(inFlightRef, netLog[p].key)
  /\ \E p \in 1..Len(netLog) :
       netLog[p].status = "ok" /\ ~MapHas(inFlightRef, netLog[p].key)
  /\ inFlightRef # << >>

\* the requests whose response arrives in the step
Settling == {p \in Pending : netLog'[p].status # "pending"}

\* C23: when the network request of a fetchStats call fails (a status outside
\* 2xx or a transport error), the cache is unchanged, the key is neither
\* cached nor in flight afterwards, every call waiting on the request has
\* been resumed, each loadRange among them with the error, and a fetchStats
\* call that finds its key neither cached nor in flight issues a request.
C23_FailureNotCached ==
  [][/\ \A p \in Settling :
          (\E r \in netLog'[p].response : r.status # "200")
            => /\ netLog'[p].status = "fail"
               /\ cacheRef' = cacheRef
               /\ ~MapHas(cacheRef', netLog[p].key)
               /\ ~MapHas(inFlightRef', netLog[p].key)
               /\ \A w \in waiters :
                    w.pid = {p}
                      => /\ w \notin waiters'
                         /\ w.id > 0
                              => \E i \in 1..Len(resumed') :
                                   resumed'[i].id = w.id /\ ~resumed'[i].ok
     /\ \A i \in 1..Len(fetchLog') :
          (~fetchLog'[i].cached /\ fetchLog'[i].inFlight = {})
            => fetchLog'[i].issued]_vars

\* a request ended in a transport error and a later request for its key is
\* outstanding
C23_Witness ==
  \E p, q \in 1..Len(netLog) :
    /\ p < q
    /\ netLog[p].key = netLog[q].key
    /\ \E r \in netLog[p].response : r.status = "network"
    /\ netLog[q].status = "pending"

\* C24: a response body that lacks the bin sequence or a count array (bins or
\* total not an array, countsByType not an object of arrays) makes the
\* request fail, and nothing is stored in the cache.
C24_MalformedRejected ==
  [][\A p \in Settling :
       (\E r \in netLog'[p].response :
          /\ r.status = "200"
          /\ (r.bins # "array" \/ r.total # "array" \/ r.countsByType # "arrays"))
         => /\ netLog'[p].status = "fail"
            /\ cacheRef' = cacheRef
            /\ ~MapHas(cacheRef', netLog[p].key)]_vars

\* C25: when the load of the current view fails, the error's message is
\* recorded in the error state, loading ends, and the data is retained:
\* chartData, the cache and its rendered copy are what they were before the
\* failure arrived.
C25_FailureKeepsData ==
  [][\A p \in Settling :
       (/\ mounted
        /\ netLog'[p].status = "fail"
        /\ \E i \in 1..Len(resumed') : resumed'[i].current)
         => /\ \E r \in netLog'[p].response : error' = {ParseResponse(r).message}
            /\ ~loading'
            /\ chartData' = chartData
            /\ cacheRef' = cacheRef
            /\ cachedData' = cachedData]_vars

\* the load of the current view has just failed while the chart shows the
\* data of an earlier view
C25_Witness ==
  /\ \E i \in 1..Len(resumed) : resumed[i].current /\ ~resumed[i].ok
  /\ error # {}
  /\ chartData # {}
  /\ \A d \in chartData : d.key # MakeCacheKey(endTime, rangeSec, binSec)

\* C26: the failure of a request started by prefetchAdjacent changes none of
\* error, loading and chartData, unless the loadRange of the current view is
\* waiting on that request.
C26_PrefetchFailureSwallowed ==
  [][\A p \in Settling :
       (/\ netLog'[p].status = "fail"
        /\ \E w \in waiters : w.pid = {p} /\ w.issuer /\ w.id = 0
        /\ ~\E w \in waiters : w.pid = {p} /\ w.id = requestIdRef)
         => UNCHANGED << error, loading, chartData >>]_vars

\* the only loadRange so far has succeeded and a request made by its prefetch
\* has failed: no error is shown and the chart keeps its data
C26_Witness ==
  /\ requestIdRef = 1
  /\ \E p \in 2..Len(netLog) : netLog[p].status = "fail"
  /\ error = {}
  /\ ~loading
  /\ chartData # {}

\* C27: every window stored in the cache has, for every type it reports, as
\* many counts as it has bins, whatever arrays the response contained.
C27_CountsMatchBins ==
  \A i \in 1..Len(cacheRef) :
    LET data == cacheRef[i].val.data
        bins == Bins(data)
        counts == CountsByType(data)
    IN \A j \in 1..Len(counts) : Len(counts[j].values) = Len(bins)

\* C28: a cache entry is created only by a request that succeeded in the
\* step, for the key of that request and only when the key was absent; an
\* entry that stays in the cache keeps its data and load time; and entries
\* leave the cache only by eviction: at most one per step, and only in a step
\* that stores a window into a cache already holding MAX_CACHE_SIZE entries.
C28_CacheLifecycle ==
  [][/\ \A p \in Settling :
          netLog'[p].status = "ok" => ~MapHas(cacheRef, netLog[p].key)
     /\ \/ cacheRef' = cacheRef
        \/ LET before == {cacheRef[i] : i \in 1..Len(cacheRef)}
               after == {cacheRef'[i] : i \in 1..Len(cacheRef')}
               created == after \ before
               removed == before \ after
           IN /\ \A e \in created :
                   /\ ~MapHas(cacheRef, e.key)
                   /\ \E p \in Settling :
                        netLog[p].key = e.key /\ netLog'[p].status = "ok"
              /\ \A e \in removed : ~MapHas(cacheRef', e.key)
              /\ Cardinality(removed) <= 1
              /\ removed # {}
                   => (created # {} /\ Len(cacheRef) = MAX_CACHE_SIZE)]_vars

\* the cache is full, and the window stored last has pushed out another
C28_Witness ==
  /\ Len(cacheRef) = MAX_CACHE_SIZE
  /\ \E p \in 1..Len(netLog) :
       /\ netLog[p].status = "ok"
       /\ MapHas(cacheRef, netLog[p].key)
  /\ \E i \in 1..WarmSize : ~MapHas(cacheRef, WarmKey(i))

\* C29: if clamping changed the span of a gesture (after snapping), the end
\* time handleZoomRange computes and schedules is the gesture's start plus
\* the clamped span; otherwise it is the gesture's end, also when snapping
\* alone changed the span.
C29_EndTimeAnchor ==
  \A z \in zoomLog :
    /\ z.boundedRangeSec # z.effectiveRawRangeSec
         => z.nextEndTime = z.actualStart + z.boundedRangeSec * 1000
    /\ z.boundedRangeSec = z.effectiveRawRangeSec
         => z.nextEndTime = z.actualEnd
    /\ \A t \in timers :
         (zoomDebounceRef = {t.id}
            /\ ~IsNoOp(z.nextEndTime, z.endTime, z.boundedRangeSec,
                       z.selectedSeconds))
           => t.nextEndTime = z.nextEndTime

\* a gesture shorter than minRangeSec has been scheduled with the clamped
\* span laid from its start, ending after the gesture's end
C29_Witness ==
  \E z \in zoomLog :
    /\ z.effectiveRawRangeSec < z.boundedRangeSec
    /\ z.nextEndTime > z.actualEnd
    /\ \E t \in timers : t.nextEndTime = z.nextEndTime

\* C30: when the debounce timer fires (the timer c leaves the timers and no
\* gesture ran), the active selection becomes the preset whose span is within
\* one second of the committed span if there is one, and otherwise a "custom"
\* selection whose span is exactly the committed (bounded) span; so rangeSec
\* is afterwards the matched preset's span or the bounded span.
C30_CommitSelects ==
  [][\A c \in timers :
       (timers' = timers \ {c} /\ zoomLog' = {})
         => LET matchedOption == FindOption(RangeOptions(availableRange), c.boundedRangeSec)
            IN /\ matchedOption # {} => selectedOption' = The(matchedOption)
               /\ matchedOption = {}
                    => /\ selectedOption'.id = "custom"
                       /\ selectedOption'.seconds = c.boundedRangeSec
               /\ rangeSec' \in {c.boundedRangeSec}
                                \cup {o.seconds : o \in matchedOption}]_vars

\* the spans at which getOptimalBinSec is probed: each threshold, the second
\* before and the second after it, and the ends of the scale
ProbeSpans ==
  {1, 60 * 24 * 60 * 60 * 10}
    \cup UNION {{t - 1, t, t + 1} :
                  t \in {6 * 60 * 60, 3 * 24 * 60 * 60, 14 * 24 * 60 * 60,
                         60 * 24 * 60 * 60}}

\* the step function of the span
StepOfSpan(span) ==
  CASE span <= 21600 -> 60
    [] span > 21600 /\ span <= 259200 -> 300
    [] span > 259200 /\ span <= 1209600 -> 900
    [] span > 1209600 /\ span <= 5184000 -> 3600
    [] span > 5184000 -> 14400

\* C31 (as stated): whenever the "all" preset or a custom span is selected, the
\* bin resolution of the view is the step function of its span.
C31_BinSecIsStepFunction ==
  selectedOption.id \in {"all", "custom"} => binSec = StepOfSpan(rangeSec)

\* C31: getOptimalBinSec is the step function of the span (60 s up to 6 h,
\* 300 s up to 3 d, 900 s up to 14 d, 3600 s up to 60 d, 14400 s above) and is
\* non-decreasing; the "all" preset's resolution is getOptimalBinSec of its
\* span; a custom selection created by a zoom commit keeps the resolution of
\* the selection that was active when the gesture was handled.
C31_BinSecOfSelection ==
  /\ [](/\ \A a \in ProbeSpans : GetOptimalBinSec(a) = StepOfSpan(a)
        /\ \A a, b \in ProbeSpans :
             a <= b => GetOptimalBinSec(a) <= GetOptimalBinSec(b)
        /\ \A i \in 1..Len(RangeOptions(availableRange)) :
             RangeOptions(availableRange)[i].id = "all"
               => RangeOptions(availableRange)[i].binSec
                    = StepOfSpan(RangeOptions(availableRange)[i].seconds)
        /\ selectedOption.id = "all" => binSec = StepOfSpan(rangeSec))
  /\ [][\A c \in timers :
          (/\ timers' = timers \ {c}
           /\ zoomLog' = {}
           /\ selectedOption' # selectedOption
           /\ selectedOption'.id = "custom")
            => binSec' = c.selectedOption.binSec]_vars

\* the ALL button is on offer and a custom span is selected whose resolution
\* is not the step function's
C31_Witness ==
  /\ selectedOption.id = "custom"
  /\ binSec # StepOfSpan(rangeSec)
  /\ \E i \in 1..Len(RangeOptions(availableRange)) :
       RangeOptions(availableRange)[i].id = "all"

\* C32: in every reachable state the current span lies between minRangeSec
\* and zoomLimitSec.
C32_SpanWithinLimits ==
  /\ MinRangeSec(zoomLimitSec) <= rangeSec
  /\ rangeSec <= zoomLimitSec

\* C33: a zoom commit scheduled before a preset selection does not take effect
\* after it. A live timer whose captured selection is no longer the current
\* one was scheduled before a preset was pressed (a commit leaves no timer
\* behind); when it fires, the view (selection, zoom limit, end time) stays
\* as the preset selection left it.
C33_NoCommitAfterClick ==
  [][\A c \in timers :
       (/\ timers' = timers \ {c}
        /\ zoomLog' = {}
        /\ c.selectedOption # selectedOption)
         => UNCHANGED << selectedOption, zoomLimitSec, endTime >>]_vars

PrefetchCalls == {i \in 1..Len(fetchLog) : fetchLog[i].caller = 0}
OwnCalls == {i \in 1..Len(fetchLog) : fetchLog[i].caller # 0}

\* C35: prefetching does not cascade. In every task prefetchAdjacent runs at
\* most once, and only in the continuation of a loadRange that succeeded and
\* is still the current one; it calls fetchStats at most twice, for the
\* windows ending one rangeSec before and after the loaded window with the
\* same rangeSec and binSec; a task in which no such loadRange continues (a
\* prefetched window arriving) makes no fetchStats call at all. A loadRange
\* makes one fetchStats call of its own when it starts, none after, so it
\* causes at most three calls.
C35_NoPrefetchCascade ==
  /\ Len(prefetchLog) <= 1
  /\ prefetchLog # << >>
       => Cardinality({j \in 1..Len(resumed) :
                         resumed[j].current /\ resumed[j].ok}) = 1
  /\ PrefetchCalls # {} => prefetchLog # << >>
  /\ \A q \in Prefetches :
       /\ q.p.calls \subseteq {q.prevKey, q.nextKey}
       /\ {fetchLog[i].key : i \in PrefetchCalls} = q.p.calls
  /\ Cardinality(PrefetchCalls) <= 2
  /\ Cardinality(OwnCalls) <= 1
  /\ OwnCalls # {} => (PrefetchCalls = {} /\ resumed = << >>)
  /\ \A i \in OwnCalls : fetchLog[i].caller = requestIdRef

\* a loadRange answered by the network has just prefetched both neighbours
C35_Witness ==
  /\ Cardinality(PrefetchCalls) = 2
  /\ \E j \in 1..Len(resumed) : resumed[j].current /\ resumed[j].ok
  /\ \E p \in Pending : \E q \in Prefetches : netLog[p].key = q.prevKey
  /\ \E p \in Pending : \E q \in Prefetches : netLog[p].key = q.nextKey
  /\ \E p \in 1..Len(netLog) :
       /\ netLog[p].status = "ok"
       /\ \A d \in chartData : d.key = netLog[p].key

\* C36: loading is true only while the loadRange started last is suspended on
\* its request; it becomes true only in a task that starts a loadRange, and a
\* loadRange that finds its window in the cache leaves it false; and when
\* every request settles, loading always becomes false again.
C36_LoadingWhileOutstanding ==
  /\ [](loading => \E w \in waiters : w.id = requestIdRef)
  /\ [][(loading' /\ ~loading) => requestIdRef' = requestIdRef + 1]_vars
  /\ [][(requestIdRef' # requestIdRef
          /\ MapHas(cacheRef, MakeCacheKey(endTime, rangeSec, binSec)))
         => ~loading']_vars
  /\ loading ~> ~loading

\* a load answered by the network has ended: the chart shows the current
\* view's window, which a request delivered, and loading is false
C36_Witness ==
  /\ ~loading
  /\ ~effectPending
  /\ \E p \in 1..Len(netLog) :
       /\ netLog[p].status = "ok"
       /\ netLog[p].key = MakeCacheKey(endTime, rangeSec, binSec)
       /\ \A d \in chartData : d.key = netLog[p].key
  /\ chartData # {}
  /\ loadCount >= 2

\* C37: when no cached load timestamp is later than the clock, the window a
\* successful request has just stored is still in the cache after the
\* eviction its insertion triggers, and the entry evicted has the smallest
\* load timestamp, being the earliest inserted of those that share it.
C37_NewEntrySurvives ==
  [][\/ cacheRef' = cacheRef
     \/ \A p \in Settling :
          (/\ netLog'[p].status = "ok"
           /\ \A i \in 1..Len(cacheRef) : cacheRef[i].val.loadedAt <= now)
            => /\ MapHas(cacheRef', netLog[p].key)
               /\ \A i \in 1..Len(cacheRef) :
                    ~MapHas(cacheRef', cacheRef[i].key)
                      => \A j \in 1..Len(cacheRef) :
                           \/ cacheRef[j].val.loadedAt > cacheRef[i].val.loadedAt
                           \/ /\ cacheRef[j].val.loadedAt = cacheRef[i].val.loadedAt
                              /\ j >= i]_vars

\* two evictions have taken place: the entry with the smallest timestamp went
\* first, then the first inserted of the entries stamped T0, while later
\* entries with the same stamp and the windows just stored are still cached
C37_Witness ==
  /\ Len(cacheRef) = MAX_CACHE_SIZE
  /\ ~MapHas(cacheRef, WarmKey(2))
  /\ ~MapHas(cacheRef, WarmKey(1))
  /\ \A i \in 3..WarmSize : MapHas(cacheRef, WarmKey(i))
  /\ \E i \in 1..Len(cacheRef) :
       /\ cacheRef[i].val.loadedAt = T0
       /\ \E p \in 1..Len(netLog) :
            netLog[p].status = "ok" /\ netLog[p].key = cacheRef[i].key

\* C38: in SummaryProvider a loadSummary call that ends sets summary or error
\* only if it is the call started last; a call that ends after a later one
\* was started changes no state; when the call started last ends, loading
\* and refreshing are both false; a step between the two awaits of a call
\* changes no state; and after unmount no call that ends changes any state.
C38_LatestSummaryWins ==
  [][\A c \in summaryProvider.calls :
       c \notin summaryProvider'.calls
         => IF c.requestId \in {e.requestId : e \in summaryProvider'.ended}
            THEN /\ (c.requestId # summaryProvider.requestIdRef
                       \/ ~summaryProvider.mounted)
                      => SummaryValues(summaryProvider')
                           = SummaryValues(summaryProvider)
                 /\ (c.requestId = summaryProvider.requestIdRef
                       /\ summaryProvider.mounted)
                      => /\ ~summaryProvider'.loading
                         /\ ~summaryProvider'.refreshing
                 /\ summaryProvider'.requestIdRef = summaryProvider.requestIdRef
            ELSE SummaryValues(summaryProvider') = SummaryValues(summaryProvider)
    ]_vars

\* the initial load has ended with a summary after refresh() was called: it
\* changed nothing, the refresh is still outstanding
C38_Witness ==
  /\ summaryProvider.mounted
  /\ \E e \in summaryProvider.ended : e.ok /\ ~e.current /\ e.requestId = 1
  /\ summaryProvider.summary = {}
  /\ summaryProvider.refreshing
  /\ summaryProvider.loading
  /\ \E c \in summaryProvider.calls : c.requestId = summaryProvider.requestIdRef

(************************* dragging the chart *******************************)
\* The user presses the pointer on the chart, drags and releases it, from the
\* session above: the dataZoom events of the drag, the debounce timers of the
\* calls that reach handleZoomRange and the loads they start.
NextPointer ==
  \/ HandlePointerDown
  \/ HandleZoomDrag
  \/ HandlePointerUp
  \/ ZoomTimerFires
  \/ RunEffect

SpecPointer == InitWarm /\ [][NextPointer]_vars

\* C39: in AccessChart a dataZoom event raised while the pointer is down calls
\* onZoomRange not at all and leaves the view and the debounce timers alone:
\* its range, if it has one, replaces the content of the pending slot; a
\* release (mouseup, touchend or globalout) after a pointer-down with a range
\* in the slot calls onZoomRange exactly once, with that range, and empties
\* the slot; a release with an empty slot, or without a preceding
\* pointer-down, calls nothing; the slot holds a range only while the pointer
\* is down.
C39_PointerBuffersZoom ==
  /\ [](accessChart.pendingZoomRangeRef # {} => accessChart.isPointerDownRef)
  /\ [][/\ (accessChart'.event = "dataZoom" /\ accessChart.isPointerDownRef)
           => /\ accessChart'.called = << >>
              /\ accessChart'.isPointerDownRef
              /\ zoomLog' = {}
              /\ UNCHANGED << timers, zoomDebounceRef, selectedOption,
                              endTime, zoomLimitSec >>
              /\ \A c \in chartLog' :
                   accessChart'.pendingZoomRangeRef =
                     IF c.normalizedRange # {}
                     THEN c.normalizedRange
                     ELSE accessChart.pendingZoomRangeRef
        /\ (accessChart'.event \in PointerUpEvents
              /\ accessChart.isPointerDownRef
              /\ accessChart.pendingZoomRangeRef # {})
           => /\ accessChart'.called
                   = << The(accessChart.pendingZoomRangeRef) >>
              /\ accessChart'.pendingZoomRangeRef = {}
              /\ ~accessChart'.isPointerDownRef
        /\ (accessChart'.event \in PointerUpEvents
              /\ (~accessChart.isPointerDownRef
                    \/ accessChart.pendingZoomRangeRef = {}))
           => /\ accessChart'.called = << >>
              /\ accessChart'.pendingZoomRangeRef = {}
              /\ ~accessChart'.isPointerDownRef
              /\ zoomLog' = {}
              /\ UNCHANGED << timers, zoomDebounceRef >>
       ]_vars

\* the pointer has been released after a drag: onZoomRange was called once,
\* with the range of the drag's last event, the slot is empty and the call
\* has set the debounce timer
C39_Witness ==
  /\ accessChart.event \in PointerUpEvents
  /\ accessChart.called = << << 2000, 5000 >> >>
  /\ accessChart.pendingZoomRangeRef = {}
  /\ ~accessChart.isPointerDownRef
  /\ timers # {}

====
